---- MODULE Spec2Model ----
(***************************************************************************)
(* Model of the hierarchical orbit database of game-orbits                 *)
(* (src/src/database.rs, src/src/body.rs, src/src/elements.rs).            *)
(*                                                                         *)
(* Numbers.  The code computes in f32/f64; the model computes in exact     *)
(* integer arithmetic.  Angles are counted in quarter turns (1 = pi/2), so *)
(* sine and cosine are exact on the grid, and a rotation by a quarter-turn *)
(* multiple about a coordinate axis maps integer vectors to integer        *)
(* vectors.  The gravitational constant is the unit of GM (G = 1) and the  *)
(* masses and semimajor axes are drawn so that GM / a^3 has an integer     *)
(* square root.  Eccentricities are counted in units of 1/EccDen; the      *)
(* equation of centre is exact where it vanishes (eccentricity 0, or a     *)
(* mean anomaly that is a multiple of a half turn), and the inputs are     *)
(* drawn there.                                                            *)
(*                                                                         *)
(* Option<T> is a sequence of length at most one: None = << >>,            *)
(* Some(x) = <<x>>.  Vector3 is a triple <<x, y, z>>.                      *)
(*                                                                         *)
(* A call of a query has one of the outcomes                               *)
(*   "ok"       it returns val                                             *)
(*   "panic"    an unwrap() on a missing map entry aborts                  *)
(*   "overflow" unbounded recursion along a cycle of parent links          *)
(*   "hang"     a loop along a cycle of parent links never ends            *)
(***************************************************************************)
EXTENDS Integers, Sequences, FiniteSets, TLC

\* ------------------------------------------------------------------ bounds
MaxHandle == 2
MaxBodies == 3
MaxTime == 1
MaxAnomaly == 3
MaxQuarters == 5
MaxScale == 2
MaxMass == 2
MaxAxis == 2

Handles == 0..MaxHandle
TimeValues == 0..MaxTime
AnomalyValues == 0..MaxAnomaly

\* ------------------------------------------------------------ Option, Result
None == << >>
Some(x) == <<x>>
is_some(o) == Len(o) = 1
unwrap(o) == o[1]

Ok(v) == [kind |-> "ok", val |-> v]
Panic == [kind |-> "panic", val |-> 0]
Overflow == [kind |-> "overflow", val |-> 0]
Hang == [kind |-> "hang", val |-> 0]

\* ------------------------------------------------------------------ Vector3
Vector3(x, y, z) == <<x, y, z>>
zero_vector == Vector3(0, 0, 0)
x_axis == Vector3(1, 0, 0)
y_axis == Vector3(0, 1, 0)
VAdd(u, v) == Vector3(u[1] + v[1], u[2] + v[2], u[3] + v[3])
VSub(u, v) == Vector3(u[1] - v[1], u[2] - v[2], u[3] - v[3])
VScale(u, k) == Vector3(u[1] * k, u[2] * k, u[3] * k)
VDot(u, v) == u[1] * v[1] + u[2] * v[2] + u[3] * v[3]
VCross(u, v) ==
    Vector3(u[2] * v[3] - u[3] * v[2],
            u[3] * v[1] - u[1] * v[3],
            u[1] * v[2] - u[2] * v[1])

\* cosine and sine of k quarter turns
Cos4(k) == CASE k % 4 = 0 -> 1 [] k % 4 = 2 -> -1 [] OTHER -> 0
Sin4(k) == CASE k % 4 = 1 -> 1 [] k % 4 = 3 -> -1 [] OTHER -> 0

\* Rotation3::new(axis * angle) applied to v, for an axis that is a signed
\* coordinate axis or the zero vector and an angle of k quarter turns
\* (Rodrigues' formula).  A zero axis-angle vector is the identity rotation.
Rotate(axis, k, v) ==
    IF VDot(axis, axis) = 0 THEN v
    ELSE VAdd(VAdd(VScale(v, Cos4(k)), VScale(VCross(axis, v), Sin4(k))),
              VScale(axis, VDot(axis, v) * (1 - Cos4(k))))

\* exact integer square root (the inputs are perfect squares)
Sqrt(n) == CHOOSE r \in 0..n : r * r <= n /\ (r + 1) * (r + 1) > n

\* --------------------------------------------------------------------- Body
Body_new(mass_kg, axial_tilt) == [mass_kg |-> mass_kg, axial_tilt |-> axial_tilt]
CONST_G == 1
gm(info) == info.mass_kg * CONST_G

\* ------------------------------------------------------------ angle setters
\* degrees to quarter turns (deg * CONVERT_DEG_TO_RAD, in units of pi/2)
DegToAngle(deg) == deg \div 90
\* the reduction loop of the code compares the converted value (radians)
\* with the literal 360, which is 229 quarter turns on this grid
circle == 229
RECURSIVE reduce_angle(_)
reduce_angle(angle) == IF angle > circle THEN reduce_angle(angle - circle) ELSE angle

\* ---------------------------------------------------------- OrbitalElements
\* eccentricity e is stored as the numerator of e / EccDen
EccDen == 4
OrbitalElements(a, e, i, w, O) ==
    [semimajor_axis |-> a, eccentricity |-> e, inclination |-> i,
     arg_of_periapsis |-> w, long_of_ascending_node |-> O]
OrbitalElements_default == OrbitalElements(0, 0, 0, 0, 0)
with_semimajor_axis_m(orbit, a) == [orbit EXCEPT !.semimajor_axis = a]
with_eccentricity(orbit, e) == [orbit EXCEPT !.eccentricity = e]
with_inclination_deg(orbit, deg) ==
    [orbit EXCEPT !.inclination = reduce_angle(DegToAngle(deg))]
with_arg_of_periapsis_deg(orbit, deg) ==
    [orbit EXCEPT !.arg_of_periapsis = reduce_angle(DegToAngle(deg))]
with_long_of_ascending_node_deg(orbit, deg) ==
    [orbit EXCEPT !.long_of_ascending_node = reduce_angle(DegToAngle(deg))]

\* ------------------------------------------------------------ DatabaseEntry
\* scale is counted in units of the default scale 1 / 3,000,000
DatabaseEntry_new(info) ==
    [parent |-> None, info |-> info, orbit |-> None, mean_anomaly_at_epoch |-> 0,
     scale |-> 1]
\* with_parent that sets the parent link and leaves the orbit alone
with_parent_only(entry, parent_handle, orbital_elements) ==
    [entry EXCEPT !.parent = Some(parent_handle)]
with_parent(entry, parent_handle, orbital_elements) ==
    [entry EXCEPT !.parent = Some(parent_handle), !.orbit = Some(orbital_elements)]
with_scale(entry, scale) == [entry EXCEPT !.scale = scale]
with_mean_anomaly_deg(entry, deg) ==
    [entry EXCEPT !.mean_anomaly_at_epoch = reduce_angle(DegToAngle(deg))]

\* The entries a host may feed into the database.  As in the seeded solar
\* system, a handle stands for one celestial body with its own mass, tilt,
\* orbit and mean anomaly at epoch; the host chooses whether the body is a
\* root (new) or a satellite of some handle (new, with_parent,
\* with_mean_anomaly_deg).
BodyOf(handle) == Body_new(64 * 4 ^ (handle % 3), handle % 4)
OrbitOf(handle) ==
    OrbitalElements(IF handle % 2 = 0 THEN 4 ELSE 1, 0,
                    handle % 4, (handle + 1) % 4, (handle + 2) % 4)
MeanAnomalyDegOf(handle) == 90 * (handle % 4)
EntryValues(handle) ==
    { DatabaseEntry_new(BodyOf(handle)) } \cup
    { with_mean_anomaly_deg(
          with_parent(DatabaseEntry_new(BodyOf(handle)), p, OrbitOf(handle)),
          MeanAnomalyDegOf(handle)) : p \in Handles }

\* ------------------------------------------------------------ seed handles
\* The handles of the moons of Jupiter, Saturn, Uranus and Neptune are
\* written where they are used, as the sums that define them.
HANDLE_SOL == 0
HANDLE_MERCURY == 1
HANDLE_VENUS == 2
HANDLE_EARTH == 3
\* a handle for Luna below the one of its parent
HANDLE_LUNA_below_parent == HANDLE_EARTH - 1
HANDLE_LUNA == HANDLE_EARTH + 1
HANDLE_MARS == HANDLE_EARTH + 2
HANDLE_PHOBOS == HANDLE_MARS + 1
HANDLE_DEIMOS == HANDLE_MARS + 2
HANDLE_JUPITER == HANDLE_MARS + 3
HANDLE_SATURN == HANDLE_JUPITER + 97
HANDLE_URANUS == HANDLE_SATURN + 148
HANDLE_NEPTUNE == HANDLE_URANUS + 28
HANDLE_PLUTO == HANDLE_NEPTUNE + 17
HANDLE_ERIS == HANDLE_PLUTO + 1
HANDLE_DYSNOMIA == HANDLE_ERIS + 1
\* a handle for Haumea that collides with the one of Dysnomia
HANDLE_HAUMEA_colliding == HANDLE_ERIS + 1
HANDLE_HAUMEA == HANDLE_ERIS + 2
HANDLE_HIIAKA == HANDLE_HAUMEA + 1
HANDLE_NAMAKA == HANDLE_HAUMEA + 2
\* the body the camera of the solar-system example starts on
CAM_CENTERED_ON_DEFAULT == HANDLE_EARTH

\* ------------------------------------------------------------------- state
\* bodies   : the handle -> DatabaseEntry map of the Database
\* search   : which slice::binary_search the build links (its result on an
\*            unsorted slice is unspecified and differs between the two)
\* result   : the last call and its outcome
\* elements : an OrbitalElements value under construction by its setters
\* built    : a DatabaseEntry value under construction by its builders
\* centered_body : the handle the camera of the solar-system example is
\*            centred on
VARIABLES bodies, search, result, elements, built, centered_body
vars == <<bodies, search, result, elements, built, centered_body>>

Has(db, h) == h \in DOMAIN db
Size(db) == Cardinality(DOMAIN db)

\* get_entry with unwrap_or_default in place of unwrap
get_entry_or_default(db, handle) ==
    IF Has(db, handle) THEN Ok(db[handle]) ELSE Ok(DatabaseEntry_new(Body_new(0, 0)))

\* Database::get_entry
get_entry(db, handle) == IF Has(db, handle) THEN Ok(db[handle]) ELSE Panic

\* mean_anomaly_at_time with the mean motion taken from the orbiting body's
\* own gravitational parameter
mean_anomaly_at_time_own_gm(db, handle, time) ==
    IF ~Has(db, handle) THEN Panic
    ELSE LET orbiting_entry == db[handle] IN
         IF is_some(orbiting_entry.parent)
         THEN IF ~is_some(orbiting_entry.orbit) THEN Panic
              ELSE IF ~Has(db, unwrap(orbiting_entry.parent)) THEN Panic
              ELSE LET orbit == unwrap(orbiting_entry.orbit)
                       a == orbit.semimajor_axis
                       n == Sqrt(gm(orbiting_entry.info) \div (a * a * a))
                   IN Ok(orbiting_entry.mean_anomaly_at_epoch + n * time)
         ELSE Ok(0)

\* Database::mean_anomaly_at_time
mean_anomaly_at_time(db, handle, time) ==
    IF ~Has(db, handle) THEN Panic
    ELSE LET orbiting_entry == db[handle] IN
         IF is_some(orbiting_entry.parent)
         THEN IF ~is_some(orbiting_entry.orbit) THEN Panic
              ELSE IF ~Has(db, unwrap(orbiting_entry.parent)) THEN Panic
              ELSE LET orbit == unwrap(orbiting_entry.orbit)
                       parent_entry == db[unwrap(orbiting_entry.parent)]
                       a == orbit.semimajor_axis
                       n == Sqrt(gm(parent_entry.info) \div (a * a * a))
                   IN Ok(orbiting_entry.mean_anomaly_at_epoch + n * time)
         ELSE Ok(0)

\* true anomaly from mean anomaly, both in quarter turns: the equation of
\* centre 2 e sin M + 1.25 e^2 sin 2M is a number of radians,
\* (8 e EccDen sin M + 5 e^2 sin 2M) / (4 EccDen^2), and one radian is 7/11
\* of a quarter turn to the precision of the grid
true_anomaly_at(e, mean_anomaly) ==
    mean_anomaly
    + ((8 * e * EccDen * Sin4(mean_anomaly) + 5 * e * e * Sin4(2 * mean_anomaly)) * 7)
      \div (4 * EccDen * EccDen * 11)
\* radius = a (1 - e) / (1 + e cos(true anomaly))
orbital_radius_linear(a, e, true_anomaly) ==
    (a * (EccDen * EccDen - e * EccDen))
    \div (EccDen * EccDen + e * EccDen * Cos4(true_anomaly))
\* radius = a (1 - e^2) / (1 + e cos(true anomaly))
orbital_radius(a, e, true_anomaly) ==
    (a * (EccDen * EccDen - e * e))
    \div (EccDen * EccDen + e * EccDen * Cos4(true_anomaly))

\* position_at_mean_anomaly with the parent looked up before the orbit test
position_at_mean_anomaly_parent_first(db, handle, mean_anomaly) ==
    IF ~Has(db, handle) THEN Panic
    ELSE LET orbiting_body == db[handle] IN
         IF ~is_some(orbiting_body.parent) THEN Panic
         ELSE IF ~Has(db, unwrap(orbiting_body.parent)) THEN Panic
         ELSE IF is_some(orbiting_body.orbit)
         THEN LET orbit == unwrap(orbiting_body.orbit)
                  parent == db[unwrap(orbiting_body.parent)]
                  parent_up == Rotate(x_axis, parent.info.axial_tilt, y_axis)
                  dir_ascending_node ==
                      Rotate(parent_up, orbit.long_of_ascending_node, x_axis)
                  dir_normal == VCross(x_axis, dir_ascending_node)
                  direction ==
                      Rotate(dir_ascending_node, orbit.inclination,
                        Rotate(dir_normal, orbit.arg_of_periapsis,
                          Rotate(parent_up, mean_anomaly, x_axis)))
              IN Ok(VScale(direction, orbit.semimajor_axis))
         ELSE Ok(zero_vector)

\* position_at_mean_anomaly that returns the unit direction, not scaled by
\* the orbital radius
position_at_mean_anomaly_unit(db, handle, mean_anomaly) ==
    IF ~Has(db, handle) THEN Panic
    ELSE LET orbiting_body == db[handle] IN
         IF is_some(orbiting_body.orbit)
         THEN IF ~is_some(orbiting_body.parent) THEN Panic
              ELSE IF ~Has(db, unwrap(orbiting_body.parent)) THEN Panic
              ELSE LET orbit == unwrap(orbiting_body.orbit)
                       parent == db[unwrap(orbiting_body.parent)]
                       parent_up == Rotate(x_axis, parent.info.axial_tilt, y_axis)
                       dir_ascending_node ==
                           Rotate(parent_up, orbit.long_of_ascending_node, x_axis)
                       dir_normal == VCross(x_axis, dir_ascending_node)
                   IN Ok(Rotate(dir_ascending_node, orbit.inclination,
                           Rotate(dir_normal, orbit.arg_of_periapsis,
                             Rotate(parent_up,
                                    true_anomaly_at(orbit.eccentricity, mean_anomaly),
                                    x_axis))))
         ELSE Ok(zero_vector)

\* Database::position_at_mean_anomaly
position_at_mean_anomaly(db, handle, mean_anomaly) ==
    IF ~Has(db, handle) THEN Panic
    ELSE LET orbiting_body == db[handle] IN
         IF is_some(orbiting_body.orbit)
         THEN IF ~is_some(orbiting_body.parent) THEN Panic
              ELSE IF ~Has(db, unwrap(orbiting_body.parent)) THEN Panic
              ELSE LET orbit == unwrap(orbiting_body.orbit)
                       parent == db[unwrap(orbiting_body.parent)]
                       parent_up == Rotate(x_axis, parent.info.axial_tilt, y_axis)
                       true_anomaly ==
                           true_anomaly_at(orbit.eccentricity, mean_anomaly)
                       radius == orbital_radius(orbit.semimajor_axis,
                                                orbit.eccentricity, true_anomaly)
                       dir_ascending_node ==
                           Rotate(parent_up, orbit.long_of_ascending_node, x_axis)
                       dir_normal == VCross(x_axis, dir_ascending_node)
                       direction ==
                           Rotate(dir_ascending_node, orbit.inclination,
                             Rotate(dir_normal, orbit.arg_of_periapsis,
                               Rotate(parent_up, true_anomaly, x_axis)))
                   IN Ok(VScale(direction, radius))
         ELSE Ok(zero_vector)

\* Database::position_at_time
position_at_time(db, handle, time) ==
    IF ~Has(db, handle) THEN Panic
    ELSE IF is_some(db[handle].orbit)
         THEN LET mean_anomaly == mean_anomaly_at_time(db, handle, time) IN
              IF mean_anomaly.kind # "ok" THEN mean_anomaly
              ELSE position_at_mean_anomaly(db, handle, mean_anomaly.val)
         ELSE Ok(zero_vector)

\* Database::absolute_position_at_time; depth counts the nested calls, and
\* more nested calls than entries means the parent links form a cycle
RECURSIVE absolute_position_rec(_, _, _, _)
\* absolute_position_at_time without the parent's absolute position
absolute_position_own_only(db, handle, time, depth) ==
    IF Has(db, handle) THEN position_at_time(db, handle, time) ELSE Ok(zero_vector)
\* absolute_position_at_time that calls itself again at an entry without
\* a parent
absolute_position_no_base_case(db, handle, time, depth) ==
    IF depth > Size(db) THEN Overflow
    ELSE IF Has(db, handle)
    THEN LET entry == db[handle]
             parent_position ==
                 absolute_position_rec(
                     db, IF is_some(entry.parent) THEN unwrap(entry.parent) ELSE handle,
                     time, depth + 1)
         IN IF parent_position.kind # "ok" THEN parent_position
            ELSE LET own == position_at_time(db, handle, time) IN
                 IF own.kind # "ok" THEN own
                 ELSE Ok(VAdd(own.val, parent_position.val))
    ELSE Ok(zero_vector)
absolute_position_rec(db, handle, time, depth) ==
    IF depth > Size(db) THEN Overflow
    ELSE IF Has(db, handle)
    THEN LET entry == db[handle]
             parent_position ==
                 IF is_some(entry.parent)
                 THEN absolute_position_rec(db, unwrap(entry.parent), time, depth + 1)
                 ELSE Ok(zero_vector)
         IN IF parent_position.kind # "ok" THEN parent_position
            ELSE LET own == position_at_time(db, handle, time) IN
                 IF own.kind # "ok" THEN own
                 ELSE Ok(VAdd(own.val, parent_position.val))
    ELSE Ok(zero_vector)
\* the handles of the calls of absolute_position_at_time that one call
\* makes, itself first; the list is cut where more nested calls than
\* entries show a cycle
RECURSIVE absolute_position_calls(_, _, _)
absolute_position_calls(db, handle, depth) ==
    IF depth > Size(db) THEN << >>
    ELSE IF Has(db, handle) /\ is_some(db[handle].parent)
    THEN <<handle>> \o absolute_position_calls(db, unwrap(db[handle].parent), depth + 1)
    ELSE <<handle>>
absolute_position_at_time(db, handle, time) ==
    absolute_position_rec(db, handle, time, 0)

\* Database::get_parents
RECURSIVE get_parents_rec(_, _, _)
\* get_parents with the body put in front of its ancestors (leaf first)
get_parents_leaf_first(db, body, depth) ==
    IF depth > Size(db) THEN Overflow
    ELSE IF ~Has(db, body) THEN Panic
    ELSE LET body_entry == db[body] IN
         IF is_some(body_entry.parent)
         THEN LET heirarchy == get_parents_rec(db, unwrap(body_entry.parent), depth + 1) IN
              IF heirarchy.kind # "ok" THEN heirarchy
              ELSE Ok(<<body>> \o heirarchy.val)
         ELSE Ok(<<body>>)
\* get_parents that gives up the chain where it meets a cycle
get_parents_cut_at_cycle(db, body, depth) ==
    IF depth > Size(db) THEN Ok(<<body>>)
    ELSE IF ~Has(db, body) THEN Panic
    ELSE LET body_entry == db[body] IN
         IF is_some(body_entry.parent)
         THEN LET heirarchy == get_parents_rec(db, unwrap(body_entry.parent), depth + 1) IN
              IF heirarchy.kind # "ok" THEN heirarchy
              ELSE Ok(Append(heirarchy.val, body))
         ELSE Ok(<<body>>)
get_parents_rec(db, body, depth) ==
    IF depth > Size(db) THEN Overflow
    ELSE IF ~Has(db, body) THEN Panic
    ELSE LET body_entry == db[body] IN
         IF is_some(body_entry.parent)
         THEN LET heirarchy == get_parents_rec(db, unwrap(body_entry.parent), depth + 1) IN
              IF heirarchy.kind # "ok" THEN heirarchy
              ELSE Ok(Append(heirarchy.val, body))
         ELSE Ok(<<body>>)
get_parents(db, body) == get_parents_rec(db, body, 0)

\* Vec::sort, as an insertion sort
RECURSIVE insert_sorted(_, _)
insert_sorted(sorted, x) ==
    IF sorted = << >> THEN <<x>>
    ELSE IF x < Head(sorted) THEN <<x>> \o sorted
    ELSE <<Head(sorted)>> \o insert_sorted(Tail(sorted), x)
RECURSIVE sort(_)
sort(list) ==
    IF list = << >> THEN << >>
    ELSE insert_sorted(sort(SubSeq(list, 1, Len(list) - 1)), list[Len(list)])

\* the orders in which HashMap::iter can visit the entries
RECURSIVE Orderings(_)
Orderings(S) ==
    IF S = {} THEN { << >> }
    ELSE UNION { { <<x>> \o rest : rest \in Orderings(S \ {x}) } : x \in S }
IterOrders(db) == Orderings(DOMAIN db)

\* the loop of Database::get_satellites over self.iter()
RECURSIVE scan_satellites(_, _, _)
\* the loop without the comparison of the parent with the body
scan_satellites_any_parent(db, order, body) ==
    IF order = << >> THEN << >>
    ELSE LET handle == Head(order)
             entry == db[handle]
             rest == scan_satellites(db, Tail(order), body)
         IN IF is_some(entry.parent)
            THEN <<handle>> \o rest
            ELSE rest
scan_satellites(db, order, body) ==
    IF order = << >> THEN << >>
    ELSE LET handle == Head(order)
             entry == db[handle]
             rest == scan_satellites(db, Tail(order), body)
         IN IF is_some(entry.parent) /\ unwrap(entry.parent) = body
            THEN <<handle>> \o rest
            ELSE rest

\* get_satellites without the final sort
get_satellites_unsorted(db, order, body) == scan_satellites(db, order, body)

\* Database::get_satellites, the map iterated in the given order
get_satellites(db, order, body) == sort(scan_satellites(db, order, body))

\* Database::get_combined_mass_kg
RECURSIVE combined_mass_rec(_, _, _, _)
RECURSIVE sum_satellites(_, _, _, _, _)
\* the loop adding each satellite's own mass, not its combined mass
sum_satellites_own_mass(db, order, satellites, total_mass, depth) ==
    IF satellites = << >> THEN Ok(total_mass)
    ELSE sum_satellites(db, order, Tail(satellites),
                        total_mass + db[Head(satellites)].info.mass_kg, depth)
sum_satellites(db, order, satellites, total_mass, depth) ==
    IF satellites = << >> THEN Ok(total_mass)
    ELSE LET m == combined_mass_rec(db, order, Head(satellites), depth + 1) IN
         IF m.kind # "ok" THEN m
         ELSE sum_satellites(db, order, Tail(satellites), total_mass + m.val, depth)
combined_mass_rec(db, order, body, depth) ==
    IF depth > Size(db) THEN Overflow
    ELSE IF ~Has(db, body) THEN Panic
    ELSE sum_satellites(db, order, get_satellites(db, order, body),
                        db[body].info.mass_kg, depth)
get_combined_mass_kg(db, order, body) == combined_mass_rec(db, order, body, 0)

\* Database::radius_soi.  The value is kept as the expression the code
\* evaluates: semimajor_axis * (mass / parent_mass)^(2/5) for a body with an
\* orbit, distance_of_gravity(0.0000005) = sqrt(GM / 0.0000005) for a root.
\* radius_soi that takes the combined mass for a root too
radius_soi_root_combined(db, order, handle) ==
    IF ~Has(db, handle) THEN Panic
    ELSE LET orbiting_body == db[handle]
             orbiting_body_mass == get_combined_mass_kg(db, order, handle)
         IN IF orbiting_body_mass.kind # "ok" THEN orbiting_body_mass
            ELSE IF is_some(orbiting_body.orbit)
            THEN IF ~is_some(orbiting_body.parent) THEN Panic
                 ELSE IF ~Has(db, unwrap(orbiting_body.parent)) THEN Panic
                 ELSE Ok([semimajor_axis |-> unwrap(orbiting_body.orbit).semimajor_axis,
                          mass |-> orbiting_body_mass.val,
                          parent_mass |-> db[unwrap(orbiting_body.parent)].info.mass_kg])
            ELSE Ok([gm |-> orbiting_body_mass.val * CONST_G])

\* radius_soi from the body's own mass instead of its combined mass
radius_soi_own_mass(db, order, handle) ==
    IF ~Has(db, handle) THEN Panic
    ELSE LET orbiting_body == db[handle] IN
         IF is_some(orbiting_body.orbit)
         THEN IF ~is_some(orbiting_body.parent) THEN Panic
              ELSE IF ~Has(db, unwrap(orbiting_body.parent)) THEN Panic
              ELSE Ok([semimajor_axis |-> unwrap(orbiting_body.orbit).semimajor_axis,
                       mass |-> orbiting_body.info.mass_kg,
                       parent_mass |-> db[unwrap(orbiting_body.parent)].info.mass_kg])
         ELSE Ok([gm |-> gm(orbiting_body.info)])

radius_soi(db, order, handle) ==
    IF ~Has(db, handle) THEN Panic
    ELSE LET orbiting_body == db[handle]
             orbiting_body_mass == get_combined_mass_kg(db, order, handle)
         IN IF orbiting_body_mass.kind # "ok" THEN orbiting_body_mass
            ELSE IF is_some(orbiting_body.orbit)
            THEN IF ~is_some(orbiting_body.parent) THEN Panic
                 ELSE IF ~Has(db, unwrap(orbiting_body.parent)) THEN Panic
                 ELSE Ok([semimajor_axis |-> unwrap(orbiting_body.orbit).semimajor_axis,
                          mass |-> orbiting_body_mass.val,
                          parent_mass |-> db[unwrap(orbiting_body.parent)].info.mass_kg])
            ELSE Ok([gm |-> gm(orbiting_body.info)])

\* slice::binary_search as the standard library implemented it up to Rust
\* 1.81: three-way bisection that returns at the first equal element.
\* Indices are zero-based; the result is Some(index) or None.
RECURSIVE binary_search_early_exit(_, _, _, _)
binary_search_early_exit(list, x, left, right) ==
    IF left < right
    THEN LET mid == left + (right - left) \div 2
             elem == list[mid + 1]
         IN IF elem < x THEN binary_search_early_exit(list, x, mid + 1, right)
            ELSE IF elem > x THEN binary_search_early_exit(list, x, left, mid)
            ELSE Some(mid)
    ELSE None

\* slice::binary_search as the standard library implements it since Rust
\* 1.82: a fixed number of halvings without early exit, one final comparison.
RECURSIVE binary_search_branchless(_, _, _, _)
binary_search_branchless(list, x, base, size) ==
    IF size > 1
    THEN LET half == size \div 2
             mid == base + half
         IN binary_search_branchless(list, x,
                IF list[mid + 1] > x THEN base ELSE mid, size - half)
    ELSE IF list[base + 1] = x THEN Some(base) ELSE None

SearchImpls == {"early_exit", "branchless"}
\* binary_search that reports the insertion point of a missing value as found
binary_search_or_insertion_point(impl, list, x) == Some(0)
binary_search(impl, list, x) ==
    IF Len(list) = 0 THEN None
    ELSE IF impl = "early_exit" THEN binary_search_early_exit(list, x, 0, Len(list))
    ELSE binary_search_branchless(list, x, 0, Len(list))

\* the inner loop of Database::relative_position: from the intersection
\* index down relative's chain, adding positions, until relative is reached.
\* A loop that ran off the end of the chain would fall through to the outer
\* loop with the entry it stopped at.
RECURSIVE walk_up(_, _, _, _, _, _, _, _)
RECURSIVE add_down(_, _, _, _, _, _, _, _, _)
add_down(db, impl, relative_heirarchy, index, entry, relative, time, relative_position, steps) ==
    IF index < Len(relative_heirarchy)
    THEN LET handle == relative_heirarchy[index + 1]
             p == position_at_time(db, handle, time)
         IN IF ~Has(db, handle) THEN Panic
            ELSE IF p.kind # "ok" THEN p
            ELSE IF handle = relative THEN Ok(Some(VAdd(relative_position, p.val)))
            ELSE add_down(db, impl, relative_heirarchy, index + 1, db[handle],
                          relative, time, VAdd(relative_position, p.val), steps)
    ELSE walk_up(db, impl, relative_heirarchy, entry, relative, time,
                 relative_position, steps + 1)

\* the outer loop without the subtraction of the parent's position
walk_up_no_subtract(db, impl, relative_heirarchy, entry, relative, time, relative_position, steps) ==
    IF steps > Size(db) THEN Hang
    ELSE IF is_some(entry.parent)
    THEN LET parent_handle == unwrap(entry.parent) IN
         IF ~Has(db, parent_handle) THEN Panic
         ELSE LET found == binary_search(impl, relative_heirarchy, parent_handle)
              IN IF is_some(found)
                 THEN add_down(db, impl, relative_heirarchy, unwrap(found),
                               db[parent_handle], relative, time, relative_position, steps)
                 ELSE walk_up(db, impl, relative_heirarchy, db[parent_handle],
                              relative, time, relative_position, steps + 1)
    ELSE Ok(None)

\* the outer loop of Database::relative_position: up origin's chain,
\* subtracting positions, until a body of relative's chain is found.
\* steps counts the iterations; more iterations than entries means the
\* loop runs along a cycle of parent links that the search never leaves.
walk_up(db, impl, relative_heirarchy, entry, relative, time, relative_position, steps) ==
    IF steps > Size(db) THEN Hang
    ELSE IF is_some(entry.parent)
    THEN LET parent_handle == unwrap(entry.parent) IN
         IF ~Has(db, parent_handle) THEN Panic
         ELSE LET p == position_at_time(db, parent_handle, time) IN
              IF p.kind # "ok" THEN p
              ELSE LET position == VSub(relative_position, p.val)
                       found == binary_search(impl, relative_heirarchy, parent_handle)
                   IN IF is_some(found)
                      THEN add_down(db, impl, relative_heirarchy, unwrap(found),
                                    db[parent_handle], relative, time, position, steps)
                      ELSE walk_up(db, impl, relative_heirarchy, db[parent_handle],
                                   relative, time, position, steps + 1)
    ELSE Ok(None)

\* relative_position that adds origin's own position instead of subtracting
relative_position_adds_origin(db, impl, origin, relative, time) ==
    LET relative_heirarchy == get_parents(db, relative) IN
    IF relative_heirarchy.kind # "ok" THEN relative_heirarchy
    ELSE IF ~Has(db, origin) THEN Panic
    ELSE LET p == position_at_time(db, origin, time) IN
         IF p.kind # "ok" THEN p
         ELSE LET position == p.val
                  found == binary_search(impl, relative_heirarchy.val, origin)
              IN IF is_some(found)
                 THEN add_down(db, impl, relative_heirarchy.val, unwrap(found),
                               db[origin], relative, time, position, 0)
                 ELSE walk_up(db, impl, relative_heirarchy.val, db[origin],
                              relative, time, position, 0)

\* Database::relative_position
relative_position(db, impl, origin, relative, time) ==
    LET relative_heirarchy == get_parents(db, relative) IN
    IF relative_heirarchy.kind # "ok" THEN relative_heirarchy
    ELSE IF ~Has(db, origin) THEN Panic
    ELSE LET p == position_at_time(db, origin, time) IN
         IF p.kind # "ok" THEN p
         ELSE LET position == VSub(zero_vector, p.val)
                  found == binary_search(impl, relative_heirarchy.val, origin)
              IN IF is_some(found)
                 THEN add_down(db, impl, relative_heirarchy.val, unwrap(found),
                               db[origin], relative, time, position, 0)
                 ELSE walk_up(db, impl, relative_heirarchy.val, db[origin],
                              relative, time, position, 0)

\* ----------------------------------------------------------------- actions
Call(op, handle, relative, time, out) ==
    [op |-> op, handle |-> handle, relative |-> relative, time |-> time, out |-> out]
NoCall == Call("none", 0, 0, 0, Ok(0))

\* The host is single-threaded and every call is synchronous: it makes one
\* call at a time and takes its outcome before it makes the next.
Idle == result = NoCall

\* Database::default, before any call
Init ==
    /\ bodies = << >>
    /\ search \in SearchImpls
    /\ result = NoCall
    /\ elements = OrbitalElements_default
    /\ built = DatabaseEntry_new(Body_new(0, 0))
    /\ centered_body = CAM_CENTERED_ON_DEFAULT

\* HashMap::insert that keeps the entry of a present handle
insert_if_absent(db, handle, entry) == IF Has(db, handle) THEN db ELSE (handle :> entry) @@ db
\* Database::add_entry (HashMap::insert: a present handle is replaced)
insert(db, handle, entry) == (handle :> entry) @@ db
AddEntry ==
    \E handle \in Handles :
      \E entry \in EntryValues(handle) :
        /\ Idle
        /\ Has(bodies, handle) \/ Size(bodies) < MaxBodies
        /\ bodies' = insert(bodies, handle, entry)
        /\ result' = NoCall
        /\ UNCHANGED <<search, elements, built, centered_body>>

GetEntry ==
    \E handle \in Handles :
        /\ Idle
        /\ result' = Call("get_entry", handle, 0, 0, get_entry(bodies, handle))
        /\ UNCHANGED <<bodies, search, elements, built, centered_body>>

GetParents ==
    \E handle \in Handles :
        /\ Idle
        /\ result' = Call("get_parents", handle, 0, 0, get_parents(bodies, handle))
        /\ UNCHANGED <<bodies, search, elements, built, centered_body>>

GetSatellites ==
    \E handle \in Handles, order \in IterOrders(bodies) :
        /\ Idle
        /\ result' = Call("get_satellites", handle, 0, 0,
                          Ok(get_satellites(bodies, order, handle)))
        /\ UNCHANGED <<bodies, search, elements, built, centered_body>>

GetCombinedMass ==
    \E handle \in Handles, order \in IterOrders(bodies) :
        /\ Idle
        /\ result' = Call("get_combined_mass_kg", handle, 0, 0,
                          get_combined_mass_kg(bodies, order, handle))
        /\ UNCHANGED <<bodies, search, elements, built, centered_body>>

RadiusSoi ==
    \E handle \in Handles, order \in IterOrders(bodies) :
        /\ Idle
        /\ result' = Call("radius_soi", handle, 0, 0, radius_soi(bodies, order, handle))
        /\ UNCHANGED <<bodies, search, elements, built, centered_body>>

MeanAnomalyAtTime ==
    \E handle \in Handles, time \in TimeValues :
        /\ Idle
        /\ result' = Call("mean_anomaly_at_time", handle, 0, time,
                          mean_anomaly_at_time(bodies, handle, time))
        /\ UNCHANGED <<bodies, search, elements, built, centered_body>>

\* the mean anomalies at which the equation of centre of the entry vanishes
OnGrid(db, handle, mean_anomaly) ==
    (Has(db, handle) /\ is_some(db[handle].orbit))
    => (unwrap(db[handle].orbit).eccentricity = 0 \/ mean_anomaly % 2 = 0)

PositionAtMeanAnomaly ==
    \E handle \in Handles, mean_anomaly \in AnomalyValues :
        /\ Idle
        /\ OnGrid(bodies, handle, mean_anomaly)
        /\ result' = Call("position_at_mean_anomaly", handle, 0, mean_anomaly,
                          position_at_mean_anomaly(bodies, handle, mean_anomaly))
        /\ UNCHANGED <<bodies, search, elements, built, centered_body>>

\* position_at_time that keeps the time of the call in the entry
PositionAtTimeStoresTime ==
    \E handle \in Handles, time \in TimeValues :
        /\ Idle
        /\ result' = Call("position_at_time", handle, 0, time,
                          position_at_time(bodies, handle, time))
        /\ bodies' = IF Has(bodies, handle)
                      THEN [bodies EXCEPT ![handle].mean_anomaly_at_epoch = @ + time]
                      ELSE bodies
        /\ UNCHANGED <<search, elements, built, centered_body>>

PositionAtTime ==
    \E handle \in Handles, time \in TimeValues :
        /\ Idle
        /\ result' = Call("position_at_time", handle, 0, time,
                          position_at_time(bodies, handle, time))
        /\ UNCHANGED <<bodies, search, elements, built, centered_body>>

AbsolutePositionAtTime ==
    \E handle \in Handles, time \in TimeValues :
        /\ Idle
        /\ result' = Call("absolute_position_at_time", handle, 0, time,
                          absolute_position_at_time(bodies, handle, time))
        /\ UNCHANGED <<bodies, search, elements, built, centered_body>>

RelativePosition ==
    \E origin \in Handles, relative \in Handles, time \in TimeValues :
        /\ Idle
        /\ result' = Call("relative_position", origin, relative, time,
                          relative_position(bodies, search, origin, relative, time))
        /\ UNCHANGED <<bodies, search, elements, built, centered_body>>

\* the host takes the outcome of the call
Return ==
    /\ ~Idle
    /\ result' = NoCall
    /\ UNCHANGED <<bodies, search, elements, built, centered_body>>

Next ==
    \/ AddEntry
    \/ GetEntry
    \/ GetParents
    \/ GetSatellites
    \/ GetCombinedMass
    \/ RadiusSoi
    \/ MeanAnomalyAtTime
    \/ PositionAtMeanAnomaly
    \/ PositionAtTime
    \/ AbsolutePositionAtTime
    \/ RelativePosition
    \/ Return

Spec == Init /\ [][Next]_vars

\* ------------------------------------------- OrbitalElements under its setters
\* Angles in degrees handed to the setters: negative values, values in
\* [0, 360), 360 itself, more than a turn, and values whose radians exceed
\* the literal 360 of the reduction loop.
DegValues ==
    { 90 * k : k \in (-MaxQuarters)..MaxQuarters } \cup
    { 90 * (circle + k) : k \in 0..MaxQuarters }

\* OrbitalElements::default, before any setter
InitElements ==
    /\ bodies = << >>
    /\ search = "early_exit"
    /\ result = NoCall
    /\ elements = OrbitalElements_default
    /\ built = DatabaseEntry_new(Body_new(0, 0))
    /\ centered_body = CAM_CENTERED_ON_DEFAULT

WithInclinationDeg ==
    \E deg \in DegValues :
        /\ elements' = with_inclination_deg(elements, deg)
        /\ result' = Call("with_inclination_deg", 0, 0, deg, Ok(elements'.inclination))
        /\ UNCHANGED <<bodies, search, built, centered_body>>

WithArgOfPeriapsisDeg ==
    \E deg \in DegValues :
        /\ elements' = with_arg_of_periapsis_deg(elements, deg)
        /\ result' = Call("with_arg_of_periapsis_deg", 0, 0, deg,
                          Ok(elements'.arg_of_periapsis))
        /\ UNCHANGED <<bodies, search, built, centered_body>>

WithLongOfAscendingNodeDeg ==
    \E deg \in DegValues :
        /\ elements' = with_long_of_ascending_node_deg(elements, deg)
        /\ result' = Call("with_long_of_ascending_node_deg", 0, 0, deg,
                          Ok(elements'.long_of_ascending_node))
        /\ UNCHANGED <<bodies, search, built, centered_body>>

NextElements ==
    \/ WithInclinationDeg
    \/ WithArgOfPeriapsisDeg
    \/ WithLongOfAscendingNodeDeg

SpecElements == InitElements /\ [][NextElements]_vars

\* --------------------------------------------- DatabaseEntry under its builders
ScaleValues == 1..MaxScale

\* DatabaseEntry::new
InitEntry ==
    /\ bodies = << >>
    /\ search = "early_exit"
    /\ result = NoCall
    /\ elements = OrbitalElements_default
    /\ \E handle \in Handles : built = DatabaseEntry_new(BodyOf(handle))
    /\ centered_body = CAM_CENTERED_ON_DEFAULT

EntryNew ==
    \E handle \in Handles :
        /\ built' = DatabaseEntry_new(BodyOf(handle))
        /\ result' = Call("new", handle, 0, 0, Ok(0))
        /\ UNCHANGED <<bodies, search, elements, centered_body>>

WithParent ==
    \E parent_handle \in Handles, handle \in Handles :
        /\ built' = with_parent(built, parent_handle, OrbitOf(handle))
        /\ result' = Call("with_parent", parent_handle, 0, 0, Ok(0))
        /\ UNCHANGED <<bodies, search, elements, centered_body>>

WithScale ==
    \E scale \in ScaleValues :
        /\ built' = with_scale(built, scale)
        /\ result' = Call("with_scale", 0, 0, scale, Ok(0))
        /\ UNCHANGED <<bodies, search, elements, centered_body>>

WithMeanAnomalyDeg ==
    \E deg \in DegValues :
        /\ built' = with_mean_anomaly_deg(built, deg)
        /\ result' = Call("with_mean_anomaly_deg", 0, 0, deg,
                          Ok(built'.mean_anomaly_at_epoch))
        /\ UNCHANGED <<bodies, search, elements, centered_body>>

NextEntry ==
    \/ EntryNew
    \/ WithParent
    \/ WithScale
    \/ WithMeanAnomalyDeg

SpecEntry == InitEntry /\ [][NextEntry]_vars

\* ------------------------------------------------------ a chain of masses
\* A star of any mass the Body type allows (zero included, as in
\* Body::default), and below it a chain of bodies, each a satellite of the
\* one before and on a tighter orbit, added or replaced one at a time.
MassValues == 0..MaxMass
OrbitRadiusValues(handle) == 1..(MaxAxis + 1 - handle)

InitSoi ==
    /\ \E mass \in MassValues : bodies = insert(<< >>, 0, DatabaseEntry_new(Body_new(mass, 0)))
    /\ search = "early_exit"
    /\ result = NoCall
    /\ elements = OrbitalElements_default
    /\ built = DatabaseEntry_new(Body_new(0, 0))
    /\ centered_body = CAM_CENTERED_ON_DEFAULT

\* Database::add_entry of a satellite of the entry before it
AddSatellite ==
    \E handle \in Handles \ {0}, mass \in MassValues :
      \E orbit_radius \in OrbitRadiusValues(handle) :
        /\ Idle
        /\ Has(bodies, handle - 1)
        /\ Has(bodies, handle) \/ Size(bodies) < MaxBodies
        /\ bodies' = insert(bodies, handle,
                             with_parent(DatabaseEntry_new(Body_new(mass, 0)), handle - 1,
                                         with_semimajor_axis_m(OrbitalElements_default,
                                                               orbit_radius)))
        /\ result' = NoCall
        /\ UNCHANGED <<search, elements, built, centered_body>>

NextSoi ==
    \/ AddSatellite
    \/ GetCombinedMass
    \/ RadiusSoi
    \/ Return

SpecSoi == InitSoi /\ [][NextSoi]_vars

\* ------------------------------------------------------- an eccentric orbit
\* A star and one planet whose orbit takes every shape of the grid; the
\* semimajor axes are multiples of EccDen^2, so that the radius is exact.
AxisValues == { EccDen * EccDen * k : k \in 1..MaxAxis }
EccValues == 0..(EccDen - 1)

InitKepler ==
    /\ bodies = insert(<< >>, 0, DatabaseEntry_new(BodyOf(0)))
    /\ search = "early_exit"
    /\ result = NoCall
    /\ elements = OrbitalElements_default
    /\ built = DatabaseEntry_new(Body_new(0, 0))
    /\ centered_body = CAM_CENTERED_ON_DEFAULT

AddPlanet ==
    \E handle \in Handles \ {0}, a \in AxisValues, e \in EccValues :
        /\ Idle
        /\ Has(bodies, handle) \/ Size(bodies) < 2
        /\ bodies' = insert(bodies, handle,
                             with_parent(DatabaseEntry_new(BodyOf(handle)), 0,
                                 with_eccentricity(
                                     with_semimajor_axis_m(OrbitOf(handle), a), e)))
        /\ result' = NoCall
        /\ UNCHANGED <<search, elements, built, centered_body>>

NextKepler ==
    \/ AddPlanet
    \/ PositionAtMeanAnomaly
    \/ Return

SpecKepler == InitKepler /\ [][NextKepler]_vars

\* ------------------------------------------------- the construction phase
\* Database::add_entry as a call of the host: the call keeps the handle, the
\* number of entries before it, and the entry it was given
AddEntryCall ==
    \E handle \in Handles :
      \E entry \in EntryValues(handle) :
        /\ Idle
        /\ Has(bodies, handle) \/ Size(bodies) < MaxBodies
        /\ bodies' = insert(bodies, handle, entry)
        /\ result' = Call("add_entry", handle, Size(bodies), 0, Ok(entry))
        /\ UNCHANGED <<search, elements, built, centered_body>>

NextAdd ==
    \/ AddEntryCall
    \/ GetEntry
    \/ Return

SpecAdd == Init /\ [][NextAdd]_vars

\* ------------------------------------------------------ the seeded solar system
\* The entry add_solar_system stores under a handle: the parent link is the
\* one of the source; mass, tilt, orbit and mean anomaly are the ones the
\* grid has for the handle.
seed_root(handle) == DatabaseEntry_new(BodyOf(handle))
seed_satellite(handle, parent_handle) ==
    with_mean_anomaly_deg(
        with_parent(DatabaseEntry_new(BodyOf(handle)), parent_handle, OrbitOf(handle)),
        MeanAnomalyDegOf(handle))
\* the add_entry calls of one seeding function, in order; each is the pair
\* of the handle and its parent
RECURSIVE add_entries(_, _)
add_entries(db, calls) ==
    IF calls = << >> THEN db
    ELSE add_entries(insert(db, Head(calls)[1],
                            seed_satellite(Head(calls)[1], Head(calls)[2])),
                     Tail(calls))

add_sol(db) == insert(db, HANDLE_SOL, seed_root(HANDLE_SOL))
add_mercury_calls ==
    <<
        <<HANDLE_MERCURY, HANDLE_SOL>> >>
add_mercury(db) == add_entries(db, add_mercury_calls)
add_venus_calls ==
    <<
        <<HANDLE_VENUS, HANDLE_SOL>> >>
add_venus(db) == add_entries(db, add_venus_calls)
add_earth_calls ==
    <<
        <<HANDLE_EARTH, HANDLE_SOL>>,
        <<HANDLE_LUNA, HANDLE_EARTH>> >>
add_earth(db) == add_entries(db, add_earth_calls)
add_mars_calls ==
    <<
        <<HANDLE_MARS, HANDLE_SOL>>,
        <<HANDLE_PHOBOS, HANDLE_MARS>>,
        <<HANDLE_DEIMOS, HANDLE_MARS>> >>
add_mars(db) == add_entries(db, add_mars_calls)
add_jupiter_calls ==
    <<
        <<HANDLE_JUPITER, HANDLE_SOL>>,
        <<HANDLE_JUPITER + 1, HANDLE_JUPITER>>,  \* HANDLE_IO
        <<HANDLE_JUPITER + 2, HANDLE_JUPITER>>,  \* HANDLE_EUROPA
        <<HANDLE_JUPITER + 3, HANDLE_JUPITER>>,  \* HANDLE_GANYMEDE
        <<HANDLE_JUPITER + 4, HANDLE_JUPITER>>,  \* HANDLE_CALLISTO
        <<HANDLE_JUPITER + 5, HANDLE_JUPITER>>,  \* HANDLE_AMALTHEA
        <<HANDLE_JUPITER + 6, HANDLE_JUPITER>>,  \* HANDLE_HIMALIA
        <<HANDLE_JUPITER + 7, HANDLE_JUPITER>>,  \* HANDLE_ELARA
        <<HANDLE_JUPITER + 8, HANDLE_JUPITER>>,  \* HANDLE_PASIPHAE
        <<HANDLE_JUPITER + 9, HANDLE_JUPITER>>,  \* HANDLE_SINOPE
        <<HANDLE_JUPITER + 10, HANDLE_JUPITER>>,  \* HANDLE_LYSITHEA
        <<HANDLE_JUPITER + 11, HANDLE_JUPITER>>,  \* HANDLE_CARME
        <<HANDLE_JUPITER + 12, HANDLE_JUPITER>>,  \* HANDLE_ANANKE
        <<HANDLE_JUPITER + 13, HANDLE_JUPITER>> >>  \* HANDLE_LEDA
add_jupiter(db) == add_entries(db, add_jupiter_calls)
add_saturn_calls ==
    <<
        <<HANDLE_SATURN, HANDLE_SOL>>,
        <<HANDLE_SATURN + 1, HANDLE_SATURN>>,  \* HANDLE_MIMAS
        <<HANDLE_SATURN + 2, HANDLE_SATURN>>,  \* HANDLE_ENCELADUS
        <<HANDLE_SATURN + 3, HANDLE_SATURN>>,  \* HANDLE_TETHYS
        <<HANDLE_SATURN + 4, HANDLE_SATURN>>,  \* HANDLE_DIONE
        <<HANDLE_SATURN + 5, HANDLE_SATURN>>,  \* HANDLE_RHEA
        <<HANDLE_SATURN + 6, HANDLE_SATURN>>,  \* HANDLE_TITAN
        <<HANDLE_SATURN + 7, HANDLE_SATURN>>,  \* HANDLE_HYPERION
        <<HANDLE_SATURN + 8, HANDLE_SATURN>>,  \* HANDLE_IAPETUS
        <<HANDLE_SATURN + 9, HANDLE_SATURN>>,  \* HANDLE_PHOEBE
        <<HANDLE_SATURN + 10, HANDLE_SATURN>> >>  \* HANDLE_JANUS
add_saturn(db) == add_entries(db, add_saturn_calls)
add_uranus_calls ==
    <<
        <<HANDLE_URANUS, HANDLE_SOL>>,
        <<HANDLE_URANUS + 1, HANDLE_URANUS>>,  \* HANDLE_ARIEL
        <<HANDLE_URANUS + 2, HANDLE_URANUS>>,  \* HANDLE_UMBRIEL
        <<HANDLE_URANUS + 3, HANDLE_URANUS>>,  \* HANDLE_TITANIA
        <<HANDLE_URANUS + 4, HANDLE_URANUS>>,  \* HANDLE_OBERON
        <<HANDLE_URANUS + 5, HANDLE_URANUS>> >>  \* HANDLE_MIRANDA
add_uranus(db) == add_entries(db, add_uranus_calls)
add_neptune_calls ==
    <<
        <<HANDLE_NEPTUNE, HANDLE_SOL>>,
        <<HANDLE_NEPTUNE + 1, HANDLE_NEPTUNE>>,  \* HANDLE_TRITON
        <<HANDLE_NEPTUNE + 2, HANDLE_NEPTUNE>>,  \* HANDLE_NEREID
        <<HANDLE_NEPTUNE + 3, HANDLE_NEPTUNE>>,  \* HANDLE_NAIAD
        <<HANDLE_NEPTUNE + 4, HANDLE_NEPTUNE>>,  \* HANDLE_THALASSA
        <<HANDLE_NEPTUNE + 5, HANDLE_NEPTUNE>>,  \* HANDLE_DESPINA
        <<HANDLE_NEPTUNE + 6, HANDLE_NEPTUNE>>,  \* HANDLE_GALATEA
        <<HANDLE_NEPTUNE + 7, HANDLE_NEPTUNE>> >>  \* HANDLE_LARISSA
add_neptune(db) == add_entries(db, add_neptune_calls)
add_dwarf_planets_calls ==
    <<
        <<HANDLE_ERIS, HANDLE_SOL>>,
        <<HANDLE_DYSNOMIA, HANDLE_ERIS>>,
        <<HANDLE_HAUMEA, HANDLE_SOL>>,
        <<HANDLE_HIIAKA, HANDLE_HAUMEA>>,
        <<HANDLE_NAMAKA, HANDLE_HAUMEA>> >>
add_dwarf_planets(db) == add_entries(db, add_dwarf_planets_calls)

\* Database::add_solar_system
add_solar_system(db) ==
    add_dwarf_planets(add_neptune(add_uranus(add_saturn(add_jupiter(
        add_mars(add_earth(add_venus(add_mercury(add_sol(db))))))))))

\* ------------------------------------------- the solar-system example's systems
\* the KeyCode of each navigation key
CAM_FOCUS_NEXT_PLANET == "ArrowRight"
CAM_FOCUS_PREV_PLANET == "ArrowLeft"
CAM_FOCUS_PARENT == "ArrowUp"
CAM_FOCUS_SATELLITES == "ArrowDown"
NavigationKeys ==
    {CAM_FOCUS_SATELLITES, CAM_FOCUS_PARENT, CAM_FOCUS_NEXT_PLANET, CAM_FOCUS_PREV_PLANET}

\* the handles of a set in ascending order
RECURSIVE Ascending(_)
Ascending(S) ==
    IF S = {} THEN << >>
    ELSE LET least == CHOOSE x \in S : \A y \in S : x <= y
         IN <<least>> \o Ascending(S \ {least})
Reversed(list) == [i \in 1..Len(list) |-> list[Len(list) + 1 - i]]
\* two of the orders in which HashMap::iter can visit the seeded entries
SeedOrders(db) == { Ascending(DOMAIN db), Reversed(Ascending(DOMAIN db)) }

\* the block of CAM_FOCUS_SATELLITES taking the next handle for the first
\* satellite, without looking at the list
focus_satellites_next_handle(db, order, centered) == Ok(centered + 1)
\* process_navigation_controls, the block of CAM_FOCUS_SATELLITES
focus_satellites(db, order, centered) ==
    LET children == get_satellites(db, order, centered) IN
    IF children # << >> THEN Ok(children[1]) ELSE Ok(centered)

\* process_navigation_controls, the block of CAM_FOCUS_PARENT
focus_parent(db, centered) ==
    LET entry == get_entry(db, centered) IN
    IF entry.kind # "ok" THEN entry
    ELSE IF is_some(entry.val.parent) THEN Ok(unwrap(entry.val.parent))
    ELSE Ok(centered)

\* the block of CAM_FOCUS_NEXT_PLANET without the wrap to index 0
focus_next_no_wrap(db, impl, order, centered) ==
    LET entry == get_entry(db, centered) IN
    IF entry.kind # "ok" THEN entry
    ELSE IF is_some(entry.val.parent)
    THEN LET siblings == get_satellites(db, order, unwrap(entry.val.parent)) IN
         IF Len(siblings) > 0
         THEN LET found == binary_search(impl, siblings, centered) IN
              IF ~is_some(found) THEN Panic
              ELSE LET index == unwrap(found) + 1
                   IN IF index >= Len(siblings) THEN Panic
                      ELSE Ok(siblings[index + 1])
         ELSE Ok(centered)
    ELSE Ok(centered)
\* process_navigation_controls, the block of CAM_FOCUS_NEXT_PLANET
focus_next(db, impl, order, centered) ==
    LET entry == get_entry(db, centered) IN
    IF entry.kind # "ok" THEN entry
    ELSE IF is_some(entry.val.parent)
    THEN LET siblings == get_satellites(db, order, unwrap(entry.val.parent)) IN
         IF Len(siblings) > 0
         THEN LET found == binary_search(impl, siblings, centered) IN
              IF ~is_some(found) THEN Panic
              ELSE LET incremented == unwrap(found) + 1
                       index == IF incremented >= Len(siblings) THEN 0 ELSE incremented
                   IN Ok(siblings[index + 1])
         ELSE Ok(centered)
    ELSE Ok(centered)

\* process_navigation_controls, the block of CAM_FOCUS_PREV_PLANET
focus_prev(db, impl, order, centered) ==
    LET entry == get_entry(db, centered) IN
    IF entry.kind # "ok" THEN entry
    ELSE IF is_some(entry.val.parent)
    THEN LET siblings == get_satellites(db, order, unwrap(entry.val.parent)) IN
         IF Len(siblings) > 0
         THEN LET found == binary_search(impl, siblings, centered) IN
              IF ~is_some(found) THEN Panic
              ELSE LET wrapped == IF unwrap(found) <= 0 THEN Len(siblings) ELSE unwrap(found)
                       index == wrapped - 1
                   IN Ok(siblings[index + 1])
         ELSE Ok(centered)
    ELSE Ok(centered)

\* process_navigation_controls: the four blocks in order, each run when its
\* key was just pressed; the outcome is the centred body it leaves
process_navigation_controls(db, impl, order, centered, just_pressed) ==
    LET satellites == IF CAM_FOCUS_SATELLITES \in just_pressed
                      THEN focus_satellites(db, order, centered) ELSE Ok(centered)
        parent == IF satellites.kind # "ok" THEN satellites
                  ELSE IF CAM_FOCUS_PARENT \in just_pressed
                  THEN focus_parent(db, satellites.val) ELSE satellites
        next == IF parent.kind # "ok" THEN parent
                ELSE IF CAM_FOCUS_NEXT_PLANET \in just_pressed
                THEN focus_next(db, impl, order, parent.val) ELSE parent
    IN IF next.kind # "ok" THEN next
       ELSE IF CAM_FOCUS_PREV_PLANET \in just_pressed
       THEN focus_prev(db, impl, order, next.val) ELSE next

\* update_planet_focus_ui: the handles whose names it shows
update_planet_focus_ui(db, impl, order, centered) ==
    LET entry == get_entry(db, centered) IN
    IF entry.kind # "ok" THEN entry
    ELSE IF is_some(entry.val.parent) /\ ~Has(db, unwrap(entry.val.parent)) THEN Panic
    ELSE LET satellites == get_satellites(db, order, centered) IN
         IF ~is_some(entry.val.parent) THEN Ok([satellites |-> satellites, siblings |-> << >>])
         ELSE LET siblings == get_satellites(db, order, unwrap(entry.val.parent))
                  found == binary_search(impl, siblings, centered)
              IN IF ~is_some(found) THEN Panic
                 ELSE LET index == unwrap(found)
                          prev_index == IF index > 0 THEN index - 1 ELSE Len(siblings) - 1
                          next_index == IF index < Len(siblings) - 1 THEN index + 1 ELSE 0
                      IN Ok([satellites |-> satellites,
                             siblings |-> <<siblings[prev_index + 1], siblings[next_index + 1]>>])

\* draw_planets: the position of every entry relative to the centred body;
\* the unwrap panics on the first entry without one
draw_planets(db, impl, centered, time) ==
    LET positions == [handle \in DOMAIN db |-> relative_position(db, impl, centered, handle, time)]
    IN IF \E handle \in DOMAIN db :
              positions[handle].kind # "ok" \/ ~is_some(positions[handle].val)
       THEN Panic
       ELSE Ok([handle \in DOMAIN db |-> unwrap(positions[handle].val)])

\* main: Database::default(), the camera centred on CAM_CENTERED_ON_DEFAULT
InitSeed ==
    /\ bodies = << >>
    /\ search \in SearchImpls
    /\ result = NoCall
    /\ elements = OrbitalElements_default
    /\ built = DatabaseEntry_new(Body_new(0, 0))
    /\ centered_body = CAM_CENTERED_ON_DEFAULT

\* main: with_solar_system, before the app runs
AddSolarSystem ==
    /\ Idle
    /\ bodies = << >>
    /\ bodies' = add_solar_system(bodies)
    /\ UNCHANGED <<search, result, elements, built, centered_body>>

\* the keys of a frame as one number, a bit for each key
Pressed(just_pressed) ==
    (IF CAM_FOCUS_SATELLITES \in just_pressed THEN 1 ELSE 0)
    + (IF CAM_FOCUS_PARENT \in just_pressed THEN 2 ELSE 0)
    + (IF CAM_FOCUS_NEXT_PLANET \in just_pressed THEN 4 ELSE 0)
    + (IF CAM_FOCUS_PREV_PLANET \in just_pressed THEN 8 ELSE 0)

\* The systems run once the app runs, after main has seeded the database.
\* A frame's key presses are recorded in the call's second operand.
ProcessNavigationControls ==
    \E just_pressed \in SUBSET NavigationKeys, order \in SeedOrders(bodies) :
        /\ Idle
        /\ bodies # << >>
        /\ LET out == process_navigation_controls(bodies, search, order,
                                                  centered_body, just_pressed)
           IN /\ result' = Call("process_navigation_controls", centered_body,
                                Pressed(just_pressed), 0, out)
              /\ centered_body' = IF out.kind = "ok" THEN out.val ELSE centered_body
        /\ UNCHANGED <<bodies, search, elements, built>>

UpdatePlanetFocusUi ==
    \E order \in SeedOrders(bodies) :
        /\ Idle
        /\ bodies # << >>
        /\ result' = Call("update_planet_focus_ui", centered_body, 0, 0,
                          update_planet_focus_ui(bodies, search, order, centered_body))
        /\ UNCHANGED <<bodies, search, elements, built, centered_body>>

DrawPlanets ==
    \E time \in TimeValues :
        /\ Idle
        /\ bodies # << >>
        /\ result' = Call("draw_planets", centered_body, 0, time,
                          draw_planets(bodies, search, centered_body, time))
        /\ UNCHANGED <<bodies, search, elements, built, centered_body>>

NextSeed ==
    \/ AddSolarSystem
    \/ ProcessNavigationControls
    \/ UpdatePlanetFocusUi
    \/ DrawPlanets
    \/ Return

SpecSeed == InitSeed /\ [][NextSeed]_vars

\* ------------------------------------------------ shape of the hierarchy
\* (reference definitions over the parent links, independent of the queries)
IsRoot(db, h) == Has(db, h) /\ ~is_some(db[h].parent) /\ ~is_some(db[h].orbit)
Roots(db) == { h \in DOMAIN db : ~is_some(db[h].parent) }
ParentsPresent(db) ==
    \A h \in DOMAIN db : is_some(db[h].parent) => Has(db, unwrap(db[h].parent))
\* the handles reached from h by one to n parent links
RECURSIVE AncestorsWithin(_, _, _)
AncestorsWithin(db, h, n) ==
    IF n = 0 \/ ~Has(db, h) \/ ~is_some(db[h].parent) THEN {}
    ELSE {unwrap(db[h].parent)} \cup AncestorsWithin(db, unwrap(db[h].parent), n - 1)
Ancestors(db, h) == AncestorsWithin(db, h, Size(db) + 1)
AncestorsOrSelf(db, h) == {h} \cup Ancestors(db, h)
Descendants(db, h) == { d \in DOMAIN db : h \in Ancestors(db, d) }
Acyclic(db) == \A h \in DOMAIN db : h \notin Ancestors(db, h)
WellFormed(db) == ParentsPresent(db) /\ Acyclic(db)
SingleRootedTree(db) == WellFormed(db) /\ Cardinality(Roots(db)) = 1

Range(list) == { list[i] : i \in 1..Len(list) }
StrictlyAscending(list) == \A i \in 1..(Len(list) - 1) : list[i] < list[i + 1]
NoDuplicates(list) == \A i, j \in 1..Len(list) : list[i] = list[j] => i = j
Returned(op) == result.op = op /\ result.out.kind = "ok"
Aborted(out) == out.kind \in {"panic", "overflow"}

RECURSIVE SumPositions(_, _, _)
SumPositions(db, S, time) ==
    IF S = {} THEN zero_vector
    ELSE LET x == CHOOSE y \in S : TRUE IN
         VAdd(position_at_time(db, x, time).val, SumPositions(db, S \ {x}, time))
RECURSIVE SumMass(_, _)
SumMass(db, S) ==
    IF S = {} THEN 0
    ELSE LET x == CHOOSE y \in S : TRUE IN db[x].info.mass_kg + SumMass(db, S \ {x})
RECURSIVE SumCombined(_, _, _)
SumCombined(db, order, satellites) ==
    IF satellites = << >> THEN 0
    ELSE get_combined_mass_kg(db, order, Head(satellites)).val
         + SumCombined(db, order, Tail(satellites))

\* ------------------------------------------------------------------ claims

\* C1: in a database that is a single-rooted tree, whatever the handle
\* values, relative_position of two handles of the database returns a
\* vector, never the 'not found' result None.
C1_NotFoundUnreachable ==
    ( /\ result.op = "relative_position"
      /\ SingleRootedTree(bodies)
      /\ Has(bodies, result.handle) /\ Has(bodies, result.relative) )
    => (result.out.kind = "ok" /\ is_some(result.out.val))

\* C2: whenever relative_position(origin, relative, t) returns a vector, it
\* is absolute_position_at_time(relative, t) minus
\* absolute_position_at_time(origin, t): the positions of the bodies that
\* are on relative's chain only, minus those on origin's chain only.
C2_RelativeIsAbsoluteDifference ==
    (Returned("relative_position") /\ is_some(result.out.val))
    => LET abs_relative == absolute_position_at_time(bodies, result.relative, result.time)
           abs_origin == absolute_position_at_time(bodies, result.handle, result.time)
           up == AncestorsOrSelf(bodies, result.handle)
           down == AncestorsOrSelf(bodies, result.relative)
       IN /\ abs_relative.kind = "ok" /\ abs_origin.kind = "ok"
          /\ unwrap(result.out.val) = VSub(abs_relative.val, abs_origin.val)
          /\ unwrap(result.out.val) =
                 VSub(SumPositions(bodies, down \ up, result.time),
                      SumPositions(bodies, up \ down, result.time))
C2_Witness ==
    /\ Returned("relative_position") /\ is_some(result.out.val)
    /\ unwrap(result.out.val) # zero_vector
    /\ result.handle \notin AncestorsOrSelf(bodies, result.relative)
    /\ result.relative \notin AncestorsOrSelf(bodies, result.handle)
    /\ Size(bodies) = 3

\* C3: relative_position(a, a, t) is the zero vector for every handle a of
\* the database (stated here for the databases the algorithms are meant
\* for, single-rooted trees).
C3_IdentityIsZero ==
    ( /\ result.op = "relative_position"
      /\ result.handle = result.relative
      /\ Has(bodies, result.handle)
      /\ SingleRootedTree(bodies) )
    => result.out = Ok(Some(zero_vector))

\* C4: whenever relative_position(a, b, t) and relative_position(b, a, t)
\* both return a vector, each is the negation of the other.
C4_Antisymmetry ==
    (Returned("relative_position") /\ is_some(result.out.val))
    => LET reverse == relative_position(bodies, search, result.relative,
                                        result.handle, result.time)
       IN (reverse.kind = "ok" /\ is_some(reverse.val))
          => unwrap(result.out.val) = VSub(zero_vector, unwrap(reverse.val))
C4_Witness ==
    /\ Returned("relative_position") /\ is_some(result.out.val)
    /\ result.handle # result.relative
    /\ unwrap(result.out.val) # zero_vector
    /\ LET reverse == relative_position(bodies, search, result.relative,
                                        result.handle, result.time)
       IN reverse.kind = "ok" /\ is_some(reverse.val)
    /\ is_some(bodies[result.handle].parent)
    /\ is_some(bodies[result.relative].parent)

\* C5: in a database whose parent links are all present and acyclic,
\* get_parents(h) is h's ancestor chain root first: it starts at an entry
\* without parent, ends at h, every later element has the preceding one as
\* its parent, no handle occurs twice, and for a root it is exactly [h].
C5_ParentsChain ==
    ( /\ result.op = "get_parents"
      /\ Has(bodies, result.handle)
      /\ WellFormed(bodies) )
    => /\ result.out.kind = "ok"
       /\ LET chain == result.out.val IN
          /\ Len(chain) >= 1
          /\ chain[Len(chain)] = result.handle
          /\ ~is_some(bodies[chain[1]].parent)
          /\ \A i \in 2..Len(chain) : bodies[chain[i]].parent = Some(chain[i - 1])
          /\ NoDuplicates(chain)
          /\ Range(chain) = AncestorsOrSelf(bodies, result.handle)
          /\ ~is_some(bodies[result.handle].parent) => chain = <<result.handle>>
C5_Witness ==
    /\ Returned("get_parents")
    /\ WellFormed(bodies)
    /\ Len(result.out.val) = 3

\* C6: s is in get_satellites(p) exactly when the entry of s has parent
\* Some(p), and every such s is returned exactly once.
C6_SatellitesAreChildren ==
    result.op = "get_satellites"
    => /\ result.out.kind = "ok"
       /\ Range(result.out.val) =
              { s \in DOMAIN bodies : bodies[s].parent = Some(result.handle) }
       /\ NoDuplicates(result.out.val)
C6_Witness ==
    /\ Returned("get_satellites")
    /\ Len(result.out.val) = 1
    /\ Size(bodies) = 3
    /\ Cardinality(Roots(bodies)) = 1

\* C7: get_satellites(p) is in strictly ascending handle order and is the
\* same list whatever the iteration order of the map.
C7_SatellitesSortedAndOrderFree ==
    result.op = "get_satellites"
    => /\ result.out.kind = "ok"
       /\ StrictlyAscending(result.out.val)
       /\ \A order \in IterOrders(bodies) :
              get_satellites(bodies, order, result.handle) = result.out.val
C7_Witness ==
    /\ Returned("get_satellites")
    /\ Len(result.out.val) >= 2
    /\ \E order \in IterOrders(bodies) :
          scan_satellites(bodies, order, result.handle) # result.out.val

\* C8: for a root (entry without parent and orbit) position_at_mean_anomaly,
\* position_at_time and absolute_position_at_time return the zero vector,
\* whatever the other entries are: the outcome is that of the database
\* holding the root alone.
Only(db, h) == [x \in {h} |-> db[x]]
C8_RootAtOrigin ==
    IsRoot(bodies, result.handle)
    => /\ result.op = "position_at_mean_anomaly" =>
            /\ result.out = Ok(zero_vector)
            /\ result.out = position_at_mean_anomaly(Only(bodies, result.handle),
                                                      result.handle, result.time)
       /\ result.op = "position_at_time" =>
            /\ result.out = Ok(zero_vector)
            /\ result.out = position_at_time(Only(bodies, result.handle),
                                              result.handle, result.time)
       /\ result.op = "absolute_position_at_time" =>
            /\ result.out = Ok(zero_vector)
            /\ result.out = absolute_position_at_time(Only(bodies, result.handle),
                                                       result.handle, result.time)
C8_Witness ==
    /\ IsRoot(bodies, result.handle)
    /\ result.op = "absolute_position_at_time"
    /\ result.time > 0
    /\ ~WellFormed(bodies)

\* C9: in an acyclic database get_combined_mass_kg(h) is the mass of h plus
\* the sum of get_combined_mass_kg over get_satellites(h), which is the sum
\* of mass_kg over h and all its descendants, each once; for a body without
\* satellites it is the body's own mass.
C9_CombinedMass ==
    ( /\ result.op = "get_combined_mass_kg"
      /\ Has(bodies, result.handle)
      /\ Acyclic(bodies) )
    => /\ result.out.kind = "ok"
       /\ result.out.val = SumMass(bodies, {result.handle} \cup Descendants(bodies, result.handle))
       /\ \A order \in IterOrders(bodies) :
            LET satellites == get_satellites(bodies, order, result.handle) IN
            /\ result.out.val = bodies[result.handle].info.mass_kg
                                 + SumCombined(bodies, order, satellites)
            /\ satellites = << >> => result.out.val = bodies[result.handle].info.mass_kg
C9_Witness ==
    /\ Returned("get_combined_mass_kg")
    /\ Acyclic(bodies)
    /\ Cardinality(Descendants(bodies, result.handle)) = 2
    /\ \E d \in Descendants(bodies, result.handle) :
          bodies[d].parent # Some(result.handle)

\* C10 as stated: every query called with a handle that is not in the
\* database aborts instead of returning a value.
QueriesWithHandle ==
    {"get_entry", "get_parents", "get_satellites", "get_combined_mass_kg",
     "position_at_mean_anomaly", "position_at_time", "mean_anomaly_at_time",
     "absolute_position_at_time", "relative_position", "radius_soi"}
UnknownHandle ==
    \/ ~Has(bodies, result.handle)
    \/ result.op = "relative_position" /\ ~Has(bodies, result.relative)
C10_EveryQueryAborts ==
    (result.op \in QueriesWithHandle /\ UnknownHandle) => Aborted(result.out)

\* C10 amended: every query other than get_satellites and
\* absolute_position_at_time aborts when called with a handle that is not
\* in the database; get_satellites returns the entries that name the handle
\* as their parent (none, unless a parent link dangles) and
\* absolute_position_at_time returns the zero vector.
C10_QueriesAbortExceptTwo ==
    (result.op \in QueriesWithHandle /\ UnknownHandle)
    => CASE result.op = "get_satellites" ->
              /\ result.out.kind = "ok"
              /\ Range(result.out.val) =
                     { s \in DOMAIN bodies : bodies[s].parent = Some(result.handle) }
              /\ ParentsPresent(bodies) => result.out.val = << >>
         [] result.op = "absolute_position_at_time" -> result.out = Ok(zero_vector)
         [] OTHER -> Aborted(result.out)
C10_Witness ==
    /\ result.op = "relative_position"
    /\ Has(bodies, result.relative) /\ ~Has(bodies, result.handle)
    /\ result.out = Panic
    /\ Size(bodies) = 2

\* the value the recorded query returns when it is made again on db
Requery(db, impl, call) ==
    LET order == CHOOSE o \in IterOrders(db) : TRUE IN
    CASE call.op = "get_entry" -> get_entry(db, call.handle)
      [] call.op = "get_parents" -> get_parents(db, call.handle)
      [] call.op = "get_satellites" -> Ok(get_satellites(db, order, call.handle))
      [] call.op = "get_combined_mass_kg" -> get_combined_mass_kg(db, order, call.handle)
      [] call.op = "radius_soi" -> radius_soi(db, order, call.handle)
      [] call.op = "mean_anomaly_at_time" ->
             mean_anomaly_at_time(db, call.handle, call.time)
      [] call.op = "position_at_mean_anomaly" ->
             position_at_mean_anomaly(db, call.handle, call.time)
      [] call.op = "position_at_time" -> position_at_time(db, call.handle, call.time)
      [] call.op = "absolute_position_at_time" ->
             absolute_position_at_time(db, call.handle, call.time)
      [] call.op = "relative_position" ->
             relative_position(db, impl, call.handle, call.relative, call.time)

\* the roots at which the parent chain of h ends (none when the chain
\* dangles or runs into a cycle)
RootsOf(db, h) == AncestorsOrSelf(db, h) \cap Roots(db)

\* radius_soi of h with the map iterated in some order
Soi(db, h) == radius_soi(db, CHOOSE o \in IterOrders(db) : TRUE, h)
CombinedMass(db, h) == get_combined_mass_kg(db, CHOOSE o \in IterOrders(db) : TRUE, h).val
Orbiting(db, h) ==
    /\ Has(db, h) /\ is_some(db[h].orbit) /\ is_some(db[h].parent)
    /\ Has(db, unwrap(db[h].parent))
\* The value a (m / M)^(2/5) of an orbiting body's radius_soi in floating
\* point: m / 0 is +infinity for m > 0 and NaN for m = 0; a > 0 here.
SoiIsNaN(v) == v.parent_mass = 0 /\ v.mass = 0
SoiIsInfinite(v) == v.parent_mass = 0 /\ v.mass > 0
SoiPositive(v) == ~SoiIsNaN(v) /\ v.semimajor_axis > 0 /\ v.mass > 0
\* v < w, compared through fifth powers: a^5 m^2 / M^2
SoiLess(v, w) ==
    /\ ~SoiIsNaN(v) /\ ~SoiIsNaN(w)
    /\ ~SoiIsInfinite(v)
    /\ \/ SoiIsInfinite(w)
       \/ v.semimajor_axis ^ 5 * v.mass ^ 2 * w.parent_mass ^ 2
          < w.semimajor_axis ^ 5 * w.mass ^ 2 * v.parent_mass ^ 2
\* a step after which h has a larger combined mass, the same semimajor
\* axis and a parent of the same mass
CombinedMassGrows(h) ==
    /\ bodies' # bodies
    /\ Orbiting(bodies, h) /\ Orbiting(bodies', h)
    /\ unwrap(bodies'[h].orbit).semimajor_axis = unwrap(bodies[h].orbit).semimajor_axis
    /\ bodies'[unwrap(bodies'[h].parent)].info.mass_kg
       = bodies[unwrap(bodies[h].parent)].info.mass_kg
    /\ CombinedMass(bodies', h) > CombinedMass(bodies, h)

\* the number of parent links from the deepest entry to its root
TreeDepth(db) ==
    LET depths == { Cardinality(Ancestors(db, h)) : h \in DOMAIN db } IN
    IF depths = {} THEN 0 ELSE CHOOSE d \in depths : \A x \in depths : x <= d

\* C11: for every angle d in degrees, with_inclination_deg,
\* with_arg_of_periapsis_deg and with_long_of_ascending_node_deg store the
\* angle reduced modulo a full turn: the stored value lies in [0, 2 pi)
\* (quarter turns 0..3) and is congruent to d modulo a full turn.
C11_AngleReducedModuloTurn ==
    (result.op \in {"with_inclination_deg", "with_arg_of_periapsis_deg",
                    "with_long_of_ascending_node_deg"})
    => /\ result.out.val \in 0..3
       /\ (result.out.val - DegToAngle(result.time)) % 4 = 0

\* C12: for every value in degrees, with_mean_anomaly_deg stores
\* mean_anomaly_at_epoch normalized into [0, 2 pi) (quarter turns 0..3).
C12_MeanAnomalyNormalized ==
    (result.op = "with_mean_anomaly_deg")
    => /\ built.mean_anomaly_at_epoch = result.out.val
       /\ built.mean_anomaly_at_epoch \in 0..3

\* C13: every entry produced by a sequence of the builders new, with_parent,
\* with_scale and with_mean_anomaly_deg has a parent exactly when it has an
\* orbit.
C13_ParentIffOrbit == is_some(built.parent) <=> is_some(built.orbit)
C13_Witness ==
    /\ result.op = "with_mean_anomaly_deg"
    /\ is_some(built.parent) /\ is_some(built.orbit)
    /\ built.scale # 1
    /\ built.mean_anomaly_at_epoch # 0

\* C14: every query leaves the handle -> entry map unchanged, and its
\* result is a function of the map and its arguments only: the same query
\* made again on the map it leaves behind gives the same result.
C14_QueriesArePure ==
    [][ (result'.op # "none")
        => /\ bodies' = bodies
           /\ result'.out = Requery(bodies', search', result') ]_vars
C14_Witness ==
    /\ Returned("position_at_time")
    /\ result.time > 0
    /\ result.out.val # zero_vector
    /\ Size(bodies) = MaxBodies

\* C15: if the parent chains of origin and relative end at different roots,
\* relative_position(origin, relative, t) reports 'not found' (None) and
\* never a vector.
C15_DifferentRootsGiveNone ==
    ( /\ result.op = "relative_position"
      /\ RootsOf(bodies, result.handle) # {}
      /\ RootsOf(bodies, result.relative) # {}
      /\ RootsOf(bodies, result.handle) # RootsOf(bodies, result.relative) )
    => result.out = Ok(None)
C15_Witness ==
    /\ result.op = "relative_position"
    /\ result.out = Ok(None)
    /\ RootsOf(bodies, result.handle) # {}
    /\ RootsOf(bodies, result.relative) # {}
    /\ RootsOf(bodies, result.handle) # RootsOf(bodies, result.relative)
    /\ ~IsRoot(bodies, result.handle)

\* C16: for any body with a parent, with masses >= 0, radius_soi is
\* strictly positive, and it strictly increases when the body's combined
\* mass increases while its semimajor axis and its parent's mass stay fixed.
C16_SoiPositiveAndIncreasing ==
    [][ /\ (result'.op = "radius_soi" /\ Orbiting(bodies', result'.handle))
           => SoiPositive(result'.out.val)
        /\ \A h \in Handles :
              CombinedMassGrows(h) => SoiLess(Soi(bodies, h).val, Soi(bodies', h).val)
      ]_vars

\* C16 (amended): for any body with a parent of strictly positive mass,
\* radius_soi is strictly positive exactly when the body's combined mass is
\* (it is zero for a massless body), and it strictly increases when the
\* combined mass increases while the semimajor axis and the parent's mass
\* stay fixed.
C16_SoiPositiveForPositiveMasses ==
    [][ /\ ( /\ result'.op = "radius_soi" /\ Orbiting(bodies', result'.handle)
             /\ result'.out.val.parent_mass > 0 )
           => (SoiPositive(result'.out.val) <=> result'.out.val.mass > 0)
        /\ \A h \in Handles :
              ( /\ CombinedMassGrows(h)
                /\ bodies[unwrap(bodies[h].parent)].info.mass_kg > 0 )
              => SoiLess(Soi(bodies, h).val, Soi(bodies', h).val)
      ]_vars
C16_Witness ==
    /\ Returned("radius_soi")
    /\ Orbiting(bodies, result.handle)
    /\ result.out.val.parent_mass > 0
    /\ bodies[result.handle].info.mass_kg > 0
    /\ result.out.val.mass > bodies[result.handle].info.mass_kg

\* C17: for every entry whose orbit has eccentricity 0 and every mean
\* anomaly M, position_at_mean_anomaly computes true anomaly M and orbital
\* radius a, and the returned position has magnitude a.
C17_CircularOrbitRadius ==
    ( /\ Returned("position_at_mean_anomaly")
      /\ Has(bodies, result.handle)
      /\ is_some(bodies[result.handle].orbit)
      /\ unwrap(bodies[result.handle].orbit).eccentricity = 0 )
    => LET a == unwrap(bodies[result.handle].orbit).semimajor_axis IN
       /\ true_anomaly_at(0, result.time) = result.time
       /\ orbital_radius(a, 0, result.time) = a
       /\ VDot(result.out.val, result.out.val) = a * a
C17_Witness ==
    /\ Returned("position_at_mean_anomaly")
    /\ Has(bodies, result.handle)
    /\ is_some(bodies[result.handle].orbit)
    /\ unwrap(bodies[result.handle].orbit).semimajor_axis > 1
    /\ result.time = MaxAnomaly

\* C18: for every entry with an orbit of eccentricity e in [0, 1) and
\* semimajor axis a, position_at_mean_anomaly at mean anomaly 0 computes
\* true anomaly 0 and orbital radius a (1 - e^2) / (1 + e) = a (1 - e), the
\* periapsis distance.
C18_PeriapsisAtZero ==
    ( /\ Returned("position_at_mean_anomaly")
      /\ result.time = 0
      /\ Has(bodies, result.handle)
      /\ is_some(bodies[result.handle].orbit) )
    => LET a == unwrap(bodies[result.handle].orbit).semimajor_axis
           e == unwrap(bodies[result.handle].orbit).eccentricity
       IN /\ true_anomaly_at(e, 0) = 0
          /\ orbital_radius(a, e, 0) * EccDen = a * (EccDen - e)
          /\ VDot(result.out.val, result.out.val) * EccDen * EccDen
             = (a * (EccDen - e)) * (a * (EccDen - e))
C18_Witness ==
    /\ Returned("position_at_mean_anomaly")
    /\ result.time = 0
    /\ Has(bodies, result.handle)
    /\ is_some(bodies[result.handle].orbit)
    /\ unwrap(bodies[result.handle].orbit).eccentricity = EccDen - 1

\* C19: in a database whose parent links are all present and acyclic,
\* absolute_position_at_time(h, t) is the sum of position_at_time(x, t)
\* over every x in get_parents(h): the body's own position plus its
\* parent's absolute position, with zero contributed at the root.
C19_AbsoluteIsSumOverChain ==
    ( /\ result.op = "absolute_position_at_time"
      /\ WellFormed(bodies)
      /\ Has(bodies, result.handle) )
    => LET h == result.handle
           chain == get_parents(bodies, h)
           own == position_at_time(bodies, h, result.time)
           above == IF is_some(bodies[h].parent)
                    THEN absolute_position_at_time(bodies, unwrap(bodies[h].parent),
                                                   result.time)
                    ELSE Ok(zero_vector)
       IN /\ result.out.kind = "ok" /\ chain.kind = "ok"
          /\ result.out.val = SumPositions(bodies, Range(chain.val), result.time)
          /\ result.out.val = VAdd(own.val, above.val)
          /\ IsRoot(bodies, h) => result.out.val = zero_vector
C19_Witness ==
    /\ Returned("absolute_position_at_time")
    /\ WellFormed(bodies)
    /\ Cardinality(Ancestors(bodies, result.handle)) = 2
    /\ result.out.val # position_at_time(bodies, result.handle, result.time).val
    /\ result.time > 0

\* C20: in a database whose parent links are all present and acyclic,
\* absolute_position_at_time(h, t) terminates at the root after exactly one
\* recursive call per ancestor of h, at most as many as the tree is deep.
C20_OneCallPerAncestor ==
    ( /\ result.op = "absolute_position_at_time"
      /\ WellFormed(bodies)
      /\ Has(bodies, result.handle) )
    => LET calls == absolute_position_calls(bodies, result.handle, 0) IN
       /\ result.out.kind = "ok"
       /\ Len(calls) >= 1 /\ Head(calls) = result.handle
       /\ NoDuplicates(calls)
       /\ Range(Tail(calls)) = Ancestors(bodies, result.handle)
       /\ Len(calls) - 1 = Cardinality(Ancestors(bodies, result.handle))
       /\ Len(calls) - 1 <= TreeDepth(bodies)
       /\ IsRoot(bodies, calls[Len(calls)])
C20_Witness ==
    /\ Returned("absolute_position_at_time")
    /\ WellFormed(bodies)
    /\ Len(absolute_position_calls(bodies, result.handle, 0)) = MaxBodies
    /\ TreeDepth(bodies) = MaxBodies - 1

\* db with the mass of the body under h replaced
WithMass(db, h, mass_kg) == [db EXCEPT ![h].info.mass_kg = mass_kg]
CatalogueMasses == { BodyOf(h).mass_kg : h \in Handles }
\* M(t) = mean_anomaly_at_epoch + n t with n^2 a^3 = parent GM, and 0 for a root
MeanAnomalyFormula(call) ==
    LET h == call.handle
        this == bodies[h]
    IN IF ~is_some(this.parent) THEN call.out = Ok(0)
       ELSE Has(bodies, unwrap(this.parent))
            => LET a == unwrap(this.orbit).semimajor_axis
                   n == Sqrt(gm(bodies[unwrap(this.parent)].info) \div (a * a * a))
               IN /\ n * n * a * a * a = bodies[unwrap(this.parent)].info.mass_kg * CONST_G
                  /\ call.out = Ok(this.mean_anomaly_at_epoch + n * call.time)
                  /\ call.time = 0 => call.out.val = this.mean_anomaly_at_epoch
MassFree(call) ==
    \A mass_kg \in CatalogueMasses :
        mean_anomaly_at_time(WithMass(bodies, call.handle, mass_kg), call.handle, call.time)
        = call.out

\* C21: mean_anomaly_at_time(h, t) returns 0 for a root for every t; for a
\* body with a parent it returns mean_anomaly_at_epoch + n t with n computed
\* from the parent's own gravitational parameter and this orbit's semimajor
\* axis, so at t = 0 it is mean_anomaly_at_epoch, and it does not depend on
\* the orbiting body's own mass.
C21_MeanAnomalyOfParentGm ==
    (result.op = "mean_anomaly_at_time" /\ Has(bodies, result.handle))
    => /\ MeanAnomalyFormula(result)
       /\ MassFree(result)

\* C21 (amended): the same, with independence of the body's own mass for
\* every body whose parent is another entry (an entry that names itself as
\* parent takes the mean motion from its own mass).
C21_MeanAnomalyOfOtherParentGm ==
    (result.op = "mean_anomaly_at_time" /\ Has(bodies, result.handle))
    => /\ MeanAnomalyFormula(result)
       /\ bodies[result.handle].parent # Some(result.handle) => MassFree(result)
C21_Witness ==
    /\ Returned("mean_anomaly_at_time")
    /\ Has(bodies, result.handle)
    /\ is_some(bodies[result.handle].parent)
    /\ bodies[result.handle].parent # Some(result.handle)
    /\ result.time > 0
    /\ result.out.val > bodies[result.handle].mean_anomaly_at_epoch
    /\ bodies[result.handle].mean_anomaly_at_epoch > 0

\* C22: radius_soi of a root (entry without orbit) depends only on the
\* root's own mass: it is the value in the database that holds the root
\* alone, whatever satellites the root has; for a body with a parent the
\* ratio is formed from the body's combined mass (itself plus descendants)
\* and the parent's own mass.
C22_RootSoiFromOwnMass ==
    (Returned("radius_soi") /\ Has(bodies, result.handle))
    => LET h == result.handle IN
       IF ~is_some(bodies[h].orbit)
       THEN /\ result.out = Ok([gm |-> bodies[h].info.mass_kg * CONST_G])
            /\ result.out = Soi(Only(bodies, h), h)
       ELSE result.out =
                Ok([semimajor_axis |-> unwrap(bodies[h].orbit).semimajor_axis,
                    mass |-> SumMass(bodies, {h} \cup Descendants(bodies, h)),
                    parent_mass |-> bodies[unwrap(bodies[h].parent)].info.mass_kg])
C22_Witness ==
    /\ Returned("radius_soi")
    /\ IsRoot(bodies, result.handle)
    /\ Cardinality(Descendants(bodies, result.handle)) = MaxBodies - 1


\* the add_entry calls of add_solar_system, the one of add_sol included
SeedCallCount ==
    1 + Len(add_mercury_calls) + Len(add_venus_calls) + Len(add_earth_calls)
      + Len(add_mars_calls) + Len(add_jupiter_calls) + Len(add_saturn_calls)
      + Len(add_uranus_calls) + Len(add_neptune_calls) + Len(add_dwarf_planets_calls)
Seeded == bodies # << >>

\* C23: after add_solar_system on an empty database the database is a single
\* tree rooted at Sol: no seeded entry overwrote another, so it holds one
\* entry per add_entry call, 52 of them; Sol is the only entry without a
\* parent; every other entry's parent is present; every parent chain has at
\* most three elements.
C23_SeedIsTreeRootedAtSol ==
    Seeded =>
        /\ SeedCallCount = 52
        /\ Size(bodies) = SeedCallCount
        /\ Roots(bodies) = {HANDLE_SOL}
        /\ ParentsPresent(bodies)
        /\ SingleRootedTree(bodies)
        /\ \A h \in DOMAIN bodies :
              /\ get_parents(bodies, h).kind = "ok"
              /\ Len(get_parents(bodies, h).val) <= 3
              /\ Head(get_parents(bodies, h).val) = HANDLE_SOL
C23_Witness ==
    /\ Seeded
    /\ Has(bodies, HANDLE_NAMAKA)
    /\ get_parents(bodies, HANDLE_NAMAKA) = Ok(<<HANDLE_SOL, HANDLE_HAUMEA, HANDLE_NAMAKA>>)

\* C24: in the seeded solar system every entry's handle is greater than its
\* parent's, every get_parents chain is in ascending order and the binary
\* search finds each of its members at its index; relative_position returns
\* a vector for every ordered pair of seeded handles and every time, and
\* the unwrap of draw_planets does not fail.
C24_SeedChainsAscending ==
    Seeded =>
        /\ \A h \in DOMAIN bodies :
              is_some(bodies[h].parent) => unwrap(bodies[h].parent) < h
        /\ \A h \in DOMAIN bodies :
              LET chain == get_parents(bodies, h).val IN
              /\ StrictlyAscending(chain)
              /\ \A i \in 1..Len(chain) :
                    binary_search(search, chain, chain[i]) = Some(i - 1)
        /\ result.op = "draw_planets" =>
              /\ result.out.kind = "ok"
              /\ DOMAIN result.out.val = DOMAIN bodies
        /\ (Idle /\ centered_body = CAM_CENTERED_ON_DEFAULT) =>
              \A origin \in DOMAIN bodies, relative \in DOMAIN bodies, time \in TimeValues :
                  LET out == relative_position(bodies, search, origin, relative, time)
                  IN out.kind = "ok" /\ is_some(out.val)
C24_Witness ==
    /\ Seeded
    /\ result.op = "draw_planets"
    /\ result.handle = HANDLE_JUPITER + 1
    /\ result.time = MaxTime
    /\ result.out.kind = "ok"
    /\ result.out.val[HANDLE_LUNA] # zero_vector


\* C25: an add_entry call stores its entry under its handle, replacing the
\* entry the handle had; the entries under all other handles are unchanged
\* and no handle is removed, so the database holds one entry per handle
\* added, the one of the last call for that handle.
C25_AddEntryReplaces ==
    [][ result'.op = "add_entry" =>
          LET handle == result'.handle
              entry == result'.out.val
          IN /\ DOMAIN bodies' = DOMAIN bodies \cup {handle}
             /\ bodies'[handle] = entry
             /\ get_entry(bodies', handle) = Ok(entry)
             /\ \A other \in DOMAIN bodies \ {handle} : bodies'[other] = bodies[other]
             /\ Size(bodies') = IF Has(bodies, handle) THEN Size(bodies)
                                ELSE Size(bodies) + 1 ]_vars
\* an add_entry under a present handle has put a satellite entry in the
\* place of another entry, next to other entries
C25_Witness ==
    /\ result.op = "add_entry"
    /\ result.relative = Size(bodies)
    /\ Size(bodies) >= 2
    /\ is_some(result.out.val.parent)
    /\ bodies[result.handle] = result.out.val


\* the database add_entry builds from the empty one when it is given the
\* entries of db in the given order of their handles
RECURSIVE Build(_, _)
Build(db, insertion) ==
    IF insertion = << >> THEN << >>
    ELSE LET handle == insertion[Len(insertion)]
         IN insert(Build(db, SubSeq(insertion, 1, Len(insertion) - 1)), handle, db[handle])

\* C26: for entries with pairwise distinct handles the order of the
\* add_entry calls does not matter: every order builds the same database, a
\* satellite may be added before its parent, and every query (get_parents,
\* get_satellites, get_combined_mass_kg, absolute_position_at_time,
\* relative_position, radius_soi) returns the same result on it, whatever
\* the order in which the map is iterated. The queries are compared between
\* the database built in ascending and in descending order of the handles.
C26_InsertionOrderIndependent ==
    (result.op = "add_entry" /\ result.relative < Size(bodies)) =>
        LET reference == Ascending(DOMAIN bodies)
            db == Build(bodies, reference)
            other == Build(bodies, Reversed(reference))
            satellites == [h \in DOMAIN bodies |-> get_satellites(db, reference, h)]
            combined_mass == [h \in DOMAIN bodies |-> get_combined_mass_kg(db, reference, h)]
        IN
        /\ \A insertion \in Orderings(DOMAIN bodies) : Build(bodies, insertion) = bodies
        /\ \A h \in DOMAIN bodies :
              /\ get_parents(other, h) = get_parents(db, h)
              /\ absolute_position_at_time(other, h, MaxTime)
                    = absolute_position_at_time(db, h, MaxTime)
              /\ \A relative \in DOMAIN bodies :
                    relative_position(other, search, h, relative, MaxTime)
                        = relative_position(db, search, h, relative, MaxTime)
              /\ radius_soi(other, Reversed(reference), h) = radius_soi(db, reference, h)
        /\ \A order \in IterOrders(bodies), h \in DOMAIN bodies :
              /\ get_satellites(other, order, h) = satellites[h]
              /\ get_combined_mass_kg(other, order, h) = combined_mass[h]
\* a parent was added after two of its satellites, the higher handle first
\* in one of the orders
C26_Witness ==
    /\ result.op = "add_entry"
    /\ result.relative = MaxBodies - 1
    /\ Size(bodies) = MaxBodies
    /\ \A h \in DOMAIN bodies \ {result.handle} : bodies[h].parent = Some(result.handle)
    /\ Len(get_satellites(bodies, Reversed(Ascending(DOMAIN bodies)), result.handle)) = 2


\* h lies on a cycle of parent links
OnCycle(db, h) == Has(db, h) /\ h \in Ancestors(db, h)

\* C27: add_entry does not validate the parent link, so a database built by
\* add_entry can hold a cycle of parent links, an entry that is its own
\* parent for one; get_parents, absolute_position_at_time and
\* get_combined_mass_kg called on a handle of a cycle recurse without end
\* and do not return.
C27_CycleRecursesForever ==
    (/\ result.op \in {"get_parents", "absolute_position_at_time", "get_combined_mass_kg"}
     /\ OnCycle(bodies, result.handle))
    => result.out = Overflow
\* the three queries do not return on an entry that is its own parent, nor
\* on a cycle of two entries
C27_Witness ==
    /\ result.op = "absolute_position_at_time"
    /\ result.out = Overflow
    /\ OnCycle(bodies, result.handle)
    /\ bodies[result.handle].parent # Some(result.handle)
    /\ \E h \in DOMAIN bodies : bodies[h].parent = Some(h)
    /\ \A h \in DOMAIN bodies :
          OnCycle(bodies, h) =>
              /\ get_parents(bodies, h) = Overflow
              /\ \A order \in IterOrders(bodies) :
                    get_combined_mass_kg(bodies, order, h) = Overflow


\* the handles that are ancestors of both a and b, each counting as its own
\* ancestor
CommonAncestors(db, a, b) == AncestorsOrSelf(db, a) \cap AncestorsOrSelf(db, b) \cap DOMAIN db
\* db with the orbit and the mean anomaly at epoch of c replaced by the ones
\* the grid has for the handle like
WithOrbitOf(db, c, like) ==
    [db EXCEPT ![c] = with_mean_anomaly_deg(
                          with_parent(db[c], unwrap(db[c].parent), OrbitOf(like)),
                          MeanAnomalyDegOf(like))]

\* C28: relative_position(origin, relative, t) does not depend on the
\* orbital elements or the mean anomaly at epoch of a body that is an
\* ancestor of both origin and relative, a body counting as its own
\* ancestor: the database that differs in such a body's own orbit gives the
\* same result.
C28_CommonAncestorOrbitIrrelevant ==
    result.op = "relative_position" =>
        \A c \in CommonAncestors(bodies, result.handle, result.relative) :
            is_some(bodies[c].parent) =>
                \A like \in Handles :
                    relative_position(WithOrbitOf(bodies, c, like), search,
                                      result.handle, result.relative, result.time)
                        = result.out
\* the position of a moon relative to its planet is a vector, and the planet
\* has another position under another orbit
C28_Witness ==
    /\ result.op = "relative_position"
    /\ result.out.kind = "ok"
    /\ is_some(result.out.val)
    /\ unwrap(result.out.val) # zero_vector
    /\ Has(bodies, result.handle)
    /\ bodies[result.handle].parent = Some(result.relative)
    /\ Has(bodies, result.relative)
    /\ is_some(bodies[result.relative].parent)
    /\ IsRoot(bodies, unwrap(bodies[result.relative].parent))
    /\ \E like \in Handles :
          LET other == WithOrbitOf(bodies, result.relative, like) IN
          /\ position_at_time(other, result.relative, result.time).kind = "ok"
          /\ position_at_time(other, result.relative, result.time)
                # position_at_time(bodies, result.relative, result.time)


\* C29: in the example, from the camera centred on Earth in the seeded
\* database, after any sequence of focus-satellite, focus-parent, focus-next
\* and focus-previous key presses the centred body is a handle present in
\* the database, and the binary search for the centred body in its parent's
\* satellite list succeeds: neither the expect of
\* process_navigation_controls nor the unwrap of update_planet_focus_ui
\* panics.
C29_NavigationStaysInDatabase ==
    Seeded =>
        /\ Has(bodies, centered_body)
        /\ result.op \in {"process_navigation_controls", "update_planet_focus_ui"}
              => result.out.kind = "ok"
        /\ is_some(bodies[centered_body].parent) =>
              \A order \in SeedOrders(bodies) :
                  LET siblings == get_satellites(bodies, order,
                                                 unwrap(bodies[centered_body].parent))
                      found == binary_search(search, siblings, centered_body)
                  IN is_some(found) /\ siblings[unwrap(found) + 1] = centered_body
\* a frame with the satellite key and the next key pressed has moved the
\* camera from a planet to the second of its moons
C29_Witness ==
    /\ Seeded
    /\ result.op = "process_navigation_controls"
    /\ result.relative = Pressed({CAM_FOCUS_SATELLITES, CAM_FOCUS_NEXT_PLANET})
    /\ result.out = Ok(centered_body)
    /\ bodies[result.handle].parent = Some(HANDLE_SOL)
    /\ bodies[centered_body].parent = Some(result.handle)
    /\ LET satellites == get_satellites(bodies, Ascending(DOMAIN bodies), result.handle)
       IN Len(satellites) > 2 /\ satellites[2] = centered_body

\* n presses of CAM_FOCUS_NEXT_PLANET, each in a frame of its own
RECURSIVE PressNext(_, _, _, _, _)
PressNext(db, impl, order, centered, n) ==
    IF n = 0 THEN Ok(centered)
    ELSE LET before == PressNext(db, impl, order, centered, n - 1) IN
         IF before.kind # "ok" THEN before
         ELSE focus_next(db, impl, order, before.val)

\* C30: in the example's sibling navigation focus-next and focus-previous
\* are inverse cyclic steps over get_satellites(parent): next then previous,
\* and previous then next, restore the centred body; next from the last
\* sibling gives the first and previous from the first gives the last; as
\* many presses of next as the parent has satellites return to the starting
\* body; both keys leave a root unchanged.
C30_NextAndPreviousAreInverse ==
    Seeded =>
        \A order \in SeedOrders(bodies) :
            LET next == focus_next(bodies, search, order, centered_body)
                prev == focus_prev(bodies, search, order, centered_body)
            IN
            /\ next.kind = "ok" /\ prev.kind = "ok"
            /\ focus_prev(bodies, search, order, next.val) = Ok(centered_body)
            /\ focus_next(bodies, search, order, prev.val) = Ok(centered_body)
            /\ IF is_some(bodies[centered_body].parent)
               THEN LET siblings == get_satellites(bodies, order,
                                                   unwrap(bodies[centered_body].parent))
                    IN /\ centered_body = siblings[Len(siblings)] => next.val = siblings[1]
                       /\ centered_body = siblings[1] => prev.val = siblings[Len(siblings)]
                       /\ \A i \in 1..(Len(siblings) - 1) :
                             centered_body = siblings[i] =>
                                 /\ next.val = siblings[i + 1]
                                 /\ focus_prev(bodies, search, order, siblings[i + 1])
                                        = Ok(siblings[i])
                       /\ PressNext(bodies, search, order, centered_body, Len(siblings))
                              = Ok(centered_body)
               ELSE next = Ok(centered_body) /\ prev = Ok(centered_body)
            /\ (result.op = "process_navigation_controls"
                    /\ result.relative = Pressed({CAM_FOCUS_NEXT_PLANET}))
               => result.out = focus_next(bodies, search, order, result.handle)
            /\ (result.op = "process_navigation_controls"
                    /\ result.relative = Pressed({CAM_FOCUS_PREV_PLANET}))
               => result.out = focus_prev(bodies, search, order, result.handle)
\* a press of next on the last of several siblings has wrapped to the first
C30_Witness ==
    /\ Seeded
    /\ result.op = "process_navigation_controls"
    /\ result.relative = Pressed({CAM_FOCUS_NEXT_PLANET})
    /\ result.out = Ok(centered_body)
    /\ is_some(bodies[centered_body].parent)
    /\ LET siblings == get_satellites(bodies, Ascending(DOMAIN bodies),
                                      unwrap(bodies[centered_body].parent))
       IN /\ Len(siblings) > 2
          /\ result.handle = siblings[Len(siblings)]
          /\ centered_body = siblings[1]

====
